---- MODULE Spec2Model ----
(***************************************************************************)
(* A model of the cost engine of GC_estimator:                             *)
(*   - estimator/calculator.py   compute (line items -> rows, phase totals,*)
(*                               contingency, overhead, profit)            *)
(*   - estimator/pricing/base.py CompositePricingProvider and PricingCache *)
(*                                                                         *)
(* Numbers.  The calculator works on Python floats and the pricing layer   *)
(* on Decimal.  Both are modelled as exact rationals [n, d] in lowest      *)
(* terms with d > 0; binary rounding of floats is not modelled.  Where the *)
(* Python type of a number decides what an operation does (Decimal * float *)
(* raises TypeError) the number carries its type in a field ty.            *)
(*                                                                         *)
(* Optional values.  None is the empty sequence, a present value v is <<v>>*)
(***************************************************************************)
EXTENDS Integers, Sequences, FiniteSets, TLC

VARIABLES
    \* ---- compute (estimator/calculator.py) ----
    project,        \* the Project passed to compute
    phases,         \* the list of phases passed to compute (their codes)
    items,          \* the list of Items passed to compute
    c_pc,           \* position in compute: "loop", "returned", "raised"
    idx,            \* index of the item the for loop is at
    rows,           \* local rows
    phase_direct,   \* local phase_direct (dict code -> amount)
    ret,            \* what compute returned: <<>> while none, else <<tuple>>
    err,            \* the exception that left compute: <<>> or <<record>>
    \* ---- CompositePricingProvider (estimator/pricing/base.py) ----
    providers,          \* self.providers
    provider_weights,   \* self.provider_weights (dict name -> weight)
    g_last,             \* the last call on the composite and what it gave
    \* ---- PricingCache (estimator/pricing/base.py) ----
    max_size,       \* self.max_size
    cache,          \* self.cache (dict key -> value)
    access_times,   \* self.access_times, in the dict's insertion order
    now,            \* the reading of the clock behind datetime.now()
    recency,        \* the cached keys in the order of their last access,
                    \* oldest first (history, not program state)
    k_last,         \* the last call on the cache and what it did
    \* ---- calculation runs that share one PricingCache ----
    runs,           \* per run: the call it is in, its position in the call,
                    \* its locals and the exception that ended it
    \* ---- CostRollup and CostAnalyzer (estimator/rollups.py) ----
    calculations,   \* the calculations dict, in insertion order
    line_items,     \* the list of LineItems
    rooms,          \* the list of Rooms
    r_pc,           \* position in rollup_by_room: "idle" or "loop"
    r_pos,          \* index of the calculation the loop of rollup_by_room is at
    room_rollup,    \* local room_rollup of rollup_by_room
    r_added,        \* what the last pass of that loop added, room by room
    r_last,         \* the call that returned or raised last and its result;
                    \* none while rollup_by_room is running
    r_first,        \* the first rollup a caller of several made: operation and result
    \* ---- CostClassRanges (api/reporting.py) ----
    custom_ranges,  \* self.custom_ranges, in the dict's insertion order
    cc_last,        \* the last call of get_cost_class and what it returned
    \* ---- CSVPricingProvider (estimator/pricing/csv_provider.py) ----
    pricing_data,   \* self.pricing_data, in the dict's insertion order
    csv_last,       \* the last call of get_pricing and what it gave
    \* ---- ProductivityDatabase, ProductivityCalculator (api/productivity.py) ----
    labor_rates,        \* db.labor_rates: hours per unit by (trade, item type)
    adjustment_factors, \* db.adjustment_factors: multiplier by (factor type, condition)
    prod_last,          \* the last call of calculate_labor_hours and its result
    \* ---- OAuth login and sessions (api/auth.py, api/main.py) ----
    sessions,       \* request.session of each client, as the session cookie carries it
    ALLOWED_USERS,  \* the list of allowed e-mail addresses the process was started with
    utc_now,        \* the reading of the clock behind datetime.utcnow(), in seconds
    state_tokens,   \* how many state tokens generate_state_token has given out
    jwts,           \* the access tokens given out by auth_callback
    spent,          \* the state tokens verify_oauth_state has taken out of their
                    \* session (history, not program state)
    logged_out,     \* the sessions whose user was logged out and has not logged in
                    \* since (history)
    a_last          \* the last request and its answer

computeVars == <<project, phases, items, c_pc, idx, rows, phase_direct, ret, err>>
compositeVars == <<providers, provider_weights, g_last>>
cacheVars == <<max_size, cache, access_times, now, recency, k_last>>
runVars == <<runs>>
rollupVars == <<calculations, line_items, rooms, r_pc, r_pos, room_rollup, r_added, r_last>>
classVars == <<custom_ranges, cc_last>>
csvVars == <<pricing_data, csv_last>>
prodVars == <<labor_rates, adjustment_factors, prod_last>>
reportVars == <<r_first>>
authVars == <<sessions, ALLOWED_USERS, utc_now, state_tokens, jwts, spent, logged_out,
              a_last>>
vars == <<computeVars, compositeVars, cacheVars, runVars, rollupVars, classVars, csvVars,
          prodVars, reportVars, authVars>>

\* what the actions of one component leave alone
besideCompute == <<compositeVars, cacheVars, runVars, rollupVars, classVars, csvVars,
    prodVars, reportVars, authVars>>
besideComposite == <<computeVars, cacheVars, runVars, rollupVars, classVars, csvVars,
    prodVars, reportVars, authVars>>
besideCache == <<computeVars, compositeVars, runVars, rollupVars, classVars, csvVars,
    prodVars, reportVars, authVars>>
besideRuns == <<computeVars, compositeVars, rollupVars, classVars, csvVars,
    prodVars, reportVars, authVars>>
besideRollup == <<computeVars, compositeVars, cacheVars, runVars, classVars, csvVars,
    prodVars, reportVars, authVars>>
besideClass == <<computeVars, compositeVars, cacheVars, runVars, rollupVars, csvVars,
    prodVars, reportVars, authVars>>
besideCsv == <<computeVars, compositeVars, cacheVars, runVars, rollupVars, classVars,
    prodVars, reportVars, authVars>>

\* ------------------------------------------------------------------------
\* Bounds of the model
\* ------------------------------------------------------------------------
MaxItems == 2
MaxProviders == 2
MaxSize == 2
MaxClock == 2

\* ------------------------------------------------------------------------
\* Exact arithmetic
\* ------------------------------------------------------------------------
None == <<>>
Some(v) == <<v>>

Abs(x) == IF x < 0 THEN -x ELSE x

RECURSIVE GCD(_, _)
GCD(a, b) == IF b = 0 THEN a ELSE GCD(b, a % b)

\* the rational n/d in lowest terms (d > 0)
Q(n, d) ==
    LET g == GCD(Abs(n), d)
    IN  IF n = 0 THEN [n |-> 0, d |-> 1] ELSE [n |-> n \div g, d |-> d \div g]

Zero == Q(0, 1)
One == Q(1, 1)
\* both reduce before they multiply, so that intermediate values stay small
RAdd(x, y) ==
    LET g == GCD(x.d, y.d)
    IN  Q(x.n * (y.d \div g) + y.n * (x.d \div g), (x.d \div g) * y.d)
RMul(x, y) ==
    LET a == Q(x.n, y.d)
        b == Q(y.n, x.d)
    IN  Q(a.n * b.n, a.d * b.d)
RDiv(x, y) == IF y.n < 0 THEN Q(-(x.n * y.d), x.d * (-y.n)) ELSE Q(x.n * y.d, x.d * y.n)
RLess(x, y) ==
    LET g == GCD(x.d, y.d)
    IN  x.n * (y.d \div g) < y.n * (x.d \div g)
RLeq(x, y) == ~RLess(y, x)

\* |x - y|
RDist(x, y) ==
    LET g == GCD(x.d, y.d)
    IN  Q(Abs(x.n * (y.d \div g) - y.n * (x.d \div g)), (x.d \div g) * y.d)

RECURSIVE RSumSeq(_)
RSumSeq(s) == IF s = <<>> THEN Zero ELSE RAdd(Head(s), RSumSeq(Tail(s)))

RECURSIVE RSumFun(_)
\* sum(d.values()) of a dict d
RSumFun(f) ==
    IF DOMAIN f = {} THEN Zero
    ELSE LET k == CHOOSE x \in DOMAIN f : TRUE
         IN  RAdd(f[k], RSumFun([x \in DOMAIN f \ {k} |-> f[x]]))

RECURSIVE RProdFun(_)
\* the product of the values of a dict
RProdFun(f) ==
    IF DOMAIN f = {} THEN One
    ELSE LET k == CHOOSE x \in DOMAIN f : TRUE
         IN  RMul(f[k], RProdFun([x \in DOMAIN f \ {k} |-> f[x]]))

Range(s) == {s[i] : i \in DOMAIN s}

\* Python truthiness of an Optional[str]: None and "" are falsy
TruthyStr(o) == o # None /\ o[1] # ""

\* ------------------------------------------------------------------------
\* Decimal arithmetic of the rollups.  Python's decimal context rounds the
\* result of every operation to prec significant digits, ROUND_HALF_EVEN
\* (prec is 28 by default and the repository never changes it).  The model
\* computes the same way at a precision of DecimalPrec digits.
\* ------------------------------------------------------------------------
DecimalPrec == 3

RECURSIVE Pow10(_)
Pow10(k) == IF k = 0 THEN 1 ELSE 10 * Pow10(k - 1)

\* x as a fraction num/den after shifting the decimal point by e places
Shifted(x, e) ==
    IF e < 0 THEN [num |-> Abs(x.n) * Pow10(-e), den |-> x.d]
    ELSE [num |-> Abs(x.n), den |-> x.d * Pow10(e)]

\* the exponent at which x # 0 has exactly DecimalPrec digits before the
\* point, searched from e
RECURSIVE ExponentFrom(_, _)
ExponentFrom(x, e) ==
    LET s == Shifted(x, e)
    IN  IF s.num < Pow10(DecimalPrec - 1) * s.den THEN ExponentFrom(x, e - 1)
        ELSE IF s.num >= Pow10(DecimalPrec) * s.den THEN ExponentFrom(x, e + 1)
        ELSE e

ExponentOf(x) == ExponentFrom(x, 0)

\* x rounded to DecimalPrec significant digits, ties to the even digit
DecRound(x) ==
    IF x.n = 0 THEN Zero
    ELSE LET e == ExponentOf(x)
             s == Shifted(x, e)
             m == s.num \div s.den
             rem == s.num % s.den
             up == 2 * rem > s.den \/ (2 * rem = s.den /\ m % 2 = 1)
             digits == IF up THEN m + 1 ELSE m
             sign == IF x.n < 0 THEN -1 ELSE 1
         IN  IF e < 0 THEN Q(sign * digits, Pow10(-e))
             ELSE Q(sign * digits * Pow10(e), 1)

DecAdd(x, y) == DecRound(RAdd(x, y))
DecMul(x, y) == DecRound(RMul(x, y))
DecDiv(x, y) == DecRound(RDiv(x, y))

\* ------------------------------------------------------------------------
\* Inputs of compute
\* ------------------------------------------------------------------------
\* Project (api/schemas.py): the first is the spec's worked example, the
\* second has the schema defaults for overhead and profit and a regional
\* factor other than 1.
Projects ==
    { [name |-> "example", estimate_class |-> "Class 3",
       overhead_pct |-> Q(15, 100), profit_pct |-> Q(10, 100), regional_factor |-> One],
      [name |-> "regional", estimate_class |-> "Class 3",
       overhead_pct |-> Q(10, 100), profit_pct |-> Q(10, 100), regional_factor |-> Q(5, 4)] }

\* the lists of Phase members a caller passes: the item phase "structure" is
\* unknown to the second list
PhaseLists == { <<"foundation", "structure">>, <<"foundation">> }

\* PhaseConfig (api/schemas.py): the per-phase contingency_pct of the schema.
\* compute never receives it.
PhaseConfigs ==
    << [code |-> "foundation", name |-> "Foundation", contingency_pct |-> Q(10, 100)],
       [code |-> "structure",  name |-> "Structure",  contingency_pct |-> Q(5, 100)] >>

\* the roster of labor classes passed to compute
labor_classes == << [name |-> "Carpenter", base_rate |-> Q(40, 1), burden_pct |-> Q(50, 100)] >>

\* the productivities passed to compute: item code "09 30 00" has an entry,
\* item code "03 30 00" has none
productivities ==
    << [item_code |-> "09 30 00", hours_per_unit |-> Q(1, 2),
        factors |-> [f \in {"access", "weather"} |->
                        IF f = "access" THEN Q(5, 4) ELSE Q(6, 5)]] >>

ItemBase ==
    [phase_code |-> "foundation", code |-> "09 30 00", quantity |-> Q(2, 1),
     waste_pct |-> Q(10, 100), labor_class |-> None,
     subcontract_unit_rate |-> None, subcontract_lump_sum |-> None,
     material_unit_cost |-> Q(5, 1), equipment_rate_per_hr |-> Q(4, 1),
     usage_hours |-> Q(2, 1)]

\* Items (api/schemas.py) a caller may pass
ItemPool ==
    \* every phase with every labour situation
    { [ItemBase EXCEPT !.phase_code = p, !.labor_class = l, !.code = c] :
        p \in {"foundation", "structure"},
        l \in {None, Some("Carpenter"), Some("Ghost")},
        c \in {"09 30 00", "03 30 00"} }
    \cup
    \* the subcontract modes, with and without waste
    { [ItemBase EXCEPT !.subcontract_unit_rate = u, !.subcontract_lump_sum = s,
                       !.waste_pct = w] :
        u \in {None, Some(Q(3, 1))},
        s \in {None, Some(Q(7, 1)), Some(Zero)},
        w \in {Zero, Q(10, 100)} }
    \cup
    \* the spec's worked example: one item of direct cost 1000
    { [ItemBase EXCEPT !.quantity = One, !.waste_pct = Zero,
                       !.material_unit_cost = Zero, !.usage_hours = Zero,
                       !.subcontract_lump_sum = Some(Q(1000, 1))],
      [ItemBase EXCEPT !.labor_class = Some("")] }

ItemLists == UNION { [1..n -> ItemPool] : n \in 0..MaxItems }

\* ------------------------------------------------------------------------
\* compute
\* ------------------------------------------------------------------------
\* dict lookups: d.get(key) over a list indexed by a field
labor_by_name(name) ==
    LET hit == {i \in DOMAIN labor_classes : labor_classes[i].name = name}
    IN  IF hit = {} THEN None
        ELSE Some(labor_classes[CHOOSE i \in hit : \A j \in hit : j <= i])

prod_by_code(code) ==
    LET hit == {i \in DOMAIN productivities : productivities[i].item_code = code}
    IN  IF hit = {} THEN None
        ELSE Some(productivities[CHOOSE i \in hit : \A j \in hit : j <= i])

BurdenedRateOfBaseOnly(lc) == lc.base_rate

_burdened_rate(lc) == RMul(lc.base_rate, RAdd(One, lc.burden_pct))

LaborHoursAtUnitProductivity(item, regional_factor) ==
    LET p == prod_by_code(item.code)
    IN  IF item.labor_class = None THEN Zero
        ELSE IF p = None THEN RMul(item.quantity, regional_factor)
        ELSE RMul(RMul(RMul(item.quantity, p[1].hours_per_unit),
                       RProdFun(p[1].factors)), regional_factor)

_labor_hours(item, regional_factor) ==
    LET p == prod_by_code(item.code)
    IN  IF p = None \/ item.labor_class = None THEN Zero
        ELSE RMul(RMul(RMul(item.quantity, p[1].hours_per_unit),
                       RProdFun(p[1].factors)), regional_factor)

\* lines 47-51
SubcontractUnitRateFirst(it) ==
    IF it.subcontract_unit_rate # None
    THEN RMul(it.quantity, it.subcontract_unit_rate[1])
    ELSE IF it.subcontract_lump_sum # None THEN it.subcontract_lump_sum[1]
    ELSE Zero

SubcontractCost(it) ==
    IF it.subcontract_lump_sum # None THEN it.subcontract_lump_sum[1]
    ELSE IF it.subcontract_unit_rate # None
         THEN RMul(it.quantity, it.subcontract_unit_rate[1])
    ELSE Zero

\* lines 53-58: [raised, hours, labor]; labor_by_name[...] raises KeyError
\* for a name that is not in the roster
LaborSkipUnknown(it, proj) ==
    IF ~TruthyStr(it.labor_class)
    THEN [raised |-> FALSE, hours |-> Zero, labor |-> Zero]
    ELSE LET hours == _labor_hours(it, proj.regional_factor)
             lc == labor_by_name(it.labor_class[1])
         IN  IF lc = None
             THEN [raised |-> FALSE, hours |-> Zero, labor |-> Zero]
             ELSE [raised |-> FALSE, hours |-> hours,
                   labor |-> RMul(hours, _burdened_rate(lc[1]))]

LaborCost(it, proj) ==
    IF ~TruthyStr(it.labor_class)
    THEN [raised |-> FALSE, hours |-> Zero, labor |-> Zero]
    ELSE LET hours == _labor_hours(it, proj.regional_factor)
             lc == labor_by_name(it.labor_class[1])
         IN  IF lc = None
             THEN [raised |-> TRUE, hours |-> hours, labor |-> Zero]
             ELSE [raised |-> FALSE, hours |-> hours,
                   labor |-> RMul(hours, _burdened_rate(lc[1]))]

\* lines 43-45, 60, 63-77: the row of an item whose labour is lab
RowDirectWithoutSub(it, lab) ==
    LET material == RMul(RMul(it.quantity, RAdd(One, it.waste_pct)), it.material_unit_cost)
        equip == RMul(it.usage_hours, it.equipment_rate_per_hr)
        sub == SubcontractCost(it)
    IN  [phase_code |-> it.phase_code, item_code |-> it.code,
         quantity |-> it.quantity, waste_pct |-> it.waste_pct,
         labor_hours |-> lab.hours, labor_cost |-> lab.labor,
         material_cost |-> material, equipment_cost |-> equip,
         subcontract_cost |-> sub,
         direct_cost |-> RAdd(RAdd(lab.labor, material), equip)]

RowWasteOnEquipment(it, lab) ==
    LET qty_waste == RMul(it.quantity, RAdd(One, it.waste_pct))
        material == RMul(qty_waste, it.material_unit_cost)
        equip == RMul(RMul(it.usage_hours, RAdd(One, it.waste_pct)), it.equipment_rate_per_hr)
        sub == SubcontractCost(it)
        direct == RAdd(RAdd(RAdd(lab.labor, material), equip), sub)
    IN  [phase_code |-> it.phase_code, item_code |-> it.code,
         quantity |-> it.quantity, waste_pct |-> it.waste_pct,
         labor_hours |-> lab.hours, labor_cost |-> lab.labor,
         material_cost |-> material, equipment_cost |-> equip,
         subcontract_cost |-> sub, direct_cost |-> direct]

Row(it, lab) ==
    LET qty_waste == RMul(it.quantity, RAdd(One, it.waste_pct))
        material == RMul(qty_waste, it.material_unit_cost)
        equip == RMul(it.usage_hours, it.equipment_rate_per_hr)
        sub == SubcontractCost(it)
        direct == RAdd(RAdd(RAdd(lab.labor, material), equip), sub)
    IN  [phase_code |-> it.phase_code, item_code |-> it.code,
         quantity |-> it.quantity, waste_pct |-> it.waste_pct,
         labor_hours |-> lab.hours, labor_cost |-> lab.labor,
         material_cost |-> material, equipment_cost |-> equip,
         subcontract_cost |-> sub, direct_cost |-> direct]

\* lines 79-83: the contingency of every phase of phase_direct
PhaseCont(pd) == [code \in DOMAIN pd |-> RMul(pd[code], Q(10, 100))]

\* lines 85-99: the summary
SummaryProfitBesideOverhead(proj, pd, pc) ==
    LET direct_total == RSumFun(pd)
        cont_total == RSumFun(pc)
        overhead == RMul(RAdd(direct_total, cont_total), proj.overhead_pct)
        profit == RMul(RAdd(direct_total, cont_total), proj.profit_pct)
    IN  [estimate_class |-> proj.estimate_class, direct_total |-> direct_total,
         phase_contingency_total |-> cont_total, overhead |-> overhead,
         profit |-> profit,
         grand_total |-> RAdd(RAdd(RAdd(direct_total, cont_total), overhead), profit)]

Summary(proj, pd, pc) ==
    LET direct_total == RSumFun(pd)
        cont_total == RSumFun(pc)
        overhead == RMul(RAdd(direct_total, cont_total), proj.overhead_pct)
        profit == RMul(RAdd(RAdd(direct_total, cont_total), overhead), proj.profit_pct)
        grand_total == RAdd(RAdd(RAdd(direct_total, cont_total), overhead), profit)
    IN  [estimate_class |-> proj.estimate_class, direct_total |-> direct_total,
         phase_contingency_total |-> cont_total, overhead |-> overhead,
         profit |-> profit, grand_total |-> grand_total]

\* the state on entry to the for loop (lines 35-40)
InitCompute ==
    /\ project \in Projects
    /\ phases \in PhaseLists
    /\ items \in ItemLists
    /\ c_pc = "loop"
    /\ idx = 1
    /\ rows = <<>>
    /\ phase_direct = [p \in Range(phases) |-> Zero]
    /\ ret = None
    /\ err = None

\* one pass of the for loop (lines 42-77)
ComputeItem ==
    /\ c_pc = "loop"
    /\ idx <= Len(items)
    /\ LET it == items[idx]
           lab == LaborCost(it, project)
           row == Row(it, lab)
       IN  IF lab.raised
           THEN /\ c_pc' = "raised"
                /\ err' = Some([type |-> "KeyError", line |-> 57, key |-> it.labor_class[1]])
                /\ UNCHANGED <<idx, rows, phase_direct>>
           ELSE IF it.phase_code \notin DOMAIN phase_direct
           THEN /\ c_pc' = "raised"
                /\ err' = Some([type |-> "KeyError", line |-> 61, key |-> it.phase_code])
                /\ UNCHANGED <<idx, rows, phase_direct>>
           ELSE /\ phase_direct' = [phase_direct EXCEPT ![it.phase_code] = RAdd(@, row.direct_cost)]
                /\ rows' = Append(rows, row)
                /\ idx' = idx + 1
                /\ UNCHANGED <<c_pc, err>>
    /\ UNCHANGED <<project, phases, items, ret>>
    /\ UNCHANGED besideCompute

\* after the loop (lines 79-100)
ComputeReturn ==
    /\ c_pc = "loop"
    /\ idx > Len(items)
    /\ LET phase_cont == PhaseCont(phase_direct)
       IN  ret' = Some([rows |-> rows, phase_direct |-> phase_direct,
                        phase_cont |-> phase_cont,
                        summary |-> Summary(project, phase_direct, phase_cont)])
    /\ c_pc' = "returned"
    /\ UNCHANGED <<project, phases, items, idx, rows, phase_direct, err>>
    /\ UNCHANGED besideCompute

NextCompute == ComputeItem \/ ComputeReturn

\* ------------------------------------------------------------------------
\* CompositePricingProvider
\* ------------------------------------------------------------------------
\* the PricingRequest of the calls
Request == [item_description |-> "concrete bag", trade |-> "concrete", location |-> "US"]

ProviderNames == <<"csv", "homedepot", "mock", "backup">>

\* a number with its Python type
Dec(n, d) == [ty |-> "Decimal", v |-> Q(n, d)]
Flt(n, d) == [ty |-> "float", v |-> Q(n, d)]
IntW(n) == [ty |-> "int", v |-> Q(n, 1)]

\* what a provider's get_pricing does with the request: it raises, it returns
\* None, or it returns a PricingResponse with these fields
Raises == [kind |-> "raise", confidence_score |-> Zero, material_unit_cost |-> None,
           labor_hours_per_unit |-> None, labor_rate_per_hour |-> None,
           equipment_cost_per_unit |-> None, overhead_rate |-> None, profit_rate |-> None]
ReturnsNone == [Raises EXCEPT !.kind = "None"]
Responds(conf, cost, hours) ==
    [kind |-> "response", confidence_score |-> conf, material_unit_cost |-> cost,
     labor_hours_per_unit |-> Some(hours), labor_rate_per_hour |-> Some(Dec(45, 1)),
     equipment_cost_per_unit |-> Some(Dec(0, 1)), overhead_rate |-> Some(Dec(15, 100)),
     profit_rate |-> Some(Dec(10, 100))]

Provider(avail, trades, locations, answer) ==
    [name |-> "", is_available |-> avail, trades |-> trades, locations |-> locations,
     answer |-> answer]

\* the providers a composite may be built from; the last three do not
\* validate the request and would answer with the highest confidence
ProviderPool ==
    { Provider(TRUE, {"concrete"}, {"US"}, a) :
        a \in { Raises, ReturnsNone,
                Responds(Q(1, 2), Some(Dec(2, 1)), Dec(1, 2)),
                Responds(Q(9, 10), Some(Dec(4, 1)), Dec(1, 10)),
                Responds(Q(9, 10), Some(Dec(6, 1)), Dec(1, 20)),
                Responds(One, None, Dec(1, 4)),
                Responds(Q(7, 10), Some(Dec(0, 1)), Dec(1, 5)) } }
    \cup
    { Provider(FALSE, {"concrete"}, {"US"}, Responds(One, Some(Dec(9, 1)), Dec(1, 1))),
      Provider(TRUE, {"wood"}, {"US"}, Responds(One, Some(Dec(9, 1)), Dec(1, 1))),
      Provider(TRUE, {"concrete"}, {"default"}, Responds(One, Some(Dec(9, 1)), Dec(1, 1))) }

\* the lists of providers handed to the constructor, each with its own name
ProviderLists ==
    UNION { { [i \in 1..n |-> [f[i] EXCEPT !.name = ProviderNames[i]]] :
                f \in [1..n -> ProviderPool] } : n \in 1..MaxProviders }

\* the weights a caller sets; the constructor's default is the float 1.0
DefaultWeight == Flt(1, 1)
WeightChoices == { Flt(2, 1), IntW(3), IntW(0) }

ValidateTradeOnly(p, request) == request.trade \in p.trades

\* PricingProvider.validate_request
validate_request(p, request) ==
    IF ~p.is_available THEN FALSE
    ELSE IF request.trade \notin p.trades THEN FALSE
    ELSE IF request.location \notin p.locations THEN FALSE
    ELSE TRUE

\* the PricingResponse object provider number i creates: obj is the identity
\* of the object
ResponseOf(provs, i) ==
    [obj |-> i, source |-> provs[i].name,
     confidence_score |-> provs[i].answer.confidence_score,
     material_unit_cost |-> provs[i].answer.material_unit_cost,
     labor_hours_per_unit |-> provs[i].answer.labor_hours_per_unit,
     labor_rate_per_hour |-> provs[i].answer.labor_rate_per_hour,
     equipment_cost_per_unit |-> provs[i].answer.equipment_cost_per_unit,
     overhead_rate |-> provs[i].answer.overhead_rate,
     profit_rate |-> provs[i].answer.profit_rate]

\* lines 150-156: the call of provider i inside try/except: "response",
\* "none", "caught" (it raised and the loop continues) or "propagated"
QueryWithoutTry(provs, i, request) ==
    IF provs[i].answer.kind = "raise" THEN "propagated"
    ELSE IF provs[i].answer.kind = "None" THEN "none"
    ELSE "response"

Query(provs, i, request) ==
    IF provs[i].answer.kind = "raise" THEN "caught"
    ELSE IF provs[i].answer.kind = "None" THEN "none"
    ELSE "response"

RECURSIVE Collect(_, _, _, _, _)
\* lines 146-156: the for loop from provider i on; keep(r) is the condition
\* under which a response is appended
Collect(provs, request, i, acc, needCost) ==
    IF i > Len(provs) THEN acc
    ELSE IF ~validate_request(provs[i], request)
         THEN Collect(provs, request, i + 1, acc, needCost)
    ELSE LET q == Query(provs, i, request)
             asked == [acc EXCEPT !.queried = @ \cup {i}]
             r == ResponseOf(provs, i)
             \* truthiness of material_unit_cost: None and 0 are falsy
             hasCost == r.material_unit_cost # None /\ r.material_unit_cost[1].v # Zero
         IN  IF q = "propagated" THEN [asked EXCEPT !.raised = TRUE]
             ELSE IF q = "response" /\ (~needCost \/ hasCost)
                  THEN Collect(provs, request, i + 1,
                               [asked EXCEPT !.responses = Append(@, r)], needCost)
             ELSE Collect(provs, request, i + 1, asked, needCost)

RECURSIVE MaxLastOf(_, _)
MaxLastOf(rs, best) ==
    IF rs = <<>> THEN best
    ELSE MaxLastOf(Tail(rs),
                   IF RLess(Head(rs).confidence_score, best.confidence_score)
                   THEN best ELSE Head(rs))
BestResponseLast(rs) == MaxLastOf(Tail(rs), Head(rs))

RECURSIVE MaxFirstOf(_, _)
MaxFirstOf(rs, best) ==
    IF rs = <<>> THEN best
    ELSE MaxFirstOf(Tail(rs),
                    IF RLess(best.confidence_score, Head(rs).confidence_score)
                    THEN Head(rs) ELSE best)
\* max(responses, key=lambda r: r.confidence_score): the first of the maxima
BestResponse(rs) == MaxFirstOf(Tail(rs), Head(rs))

NoCall == [op |-> "none", kind |-> "none", resp |-> None, exc |-> "", queried |-> {}]

InitComposite ==
    /\ providers \in ProviderLists
    /\ provider_weights = [n \in {providers[i].name : i \in DOMAIN providers} |-> DefaultWeight]
    /\ g_last = NoCall

\* CompositePricingProvider.get_pricing
GetPricing ==
    /\ LET c == Collect(providers, Request, 1,
                        [raised |-> FALSE, responses |-> <<>>, queried |-> {}], FALSE)
       IN  g_last' =
             IF c.raised
             THEN [op |-> "get_pricing", kind |-> "raised", resp |-> None,
                   exc |-> "Exception", queried |-> c.queried]
             ELSE IF c.responses = <<>>
             THEN [op |-> "get_pricing", kind |-> "None", resp |-> None,
                   exc |-> "", queried |-> c.queried]
             ELSE [op |-> "get_pricing", kind |-> "response",
                   resp |-> Some(BestResponse(c.responses)),
                   exc |-> "", queried |-> c.queried]
    /\ UNCHANGED <<providers, provider_weights>>
    /\ UNCHANGED besideComposite

\* CompositePricingProvider.set_provider_weight
SetProviderWeight ==
    /\ \E name \in Range(ProviderNames), w \in WeightChoices :
          provider_weights' =
              IF name \in DOMAIN provider_weights
              THEN [provider_weights EXCEPT ![name] = w]
              ELSE provider_weights
    /\ g_last' = [NoCall EXCEPT !.op = "set_provider_weight", !.kind = "None"]
    /\ UNCHANGED providers
    /\ UNCHANGED besideComposite

\* self.provider_weights.get(provider.name, 1.0)
WeightOf(weights, name) ==
    IF name \in DOMAIN weights THEN weights[name] ELSE DefaultWeight

RECURSIVE WeightedSum(_, _, _)
\* sum(x(r) * w for r, w in zip(responses, weights))
WeightedSum(rs, ws, field) ==
    IF rs = <<>> THEN Zero
    ELSE RAdd(RMul(IF field = "cost" THEN Head(rs).material_unit_cost[1].v
                   ELSE Head(rs).confidence_score, Head(ws).v),
              WeightedSum(Tail(rs), Tail(ws), field))

\* lines 216-235: the composite response, or the exception the arithmetic
\* raises.  material_unit_cost is a Decimal: Decimal * float raises
\* TypeError, and a Decimal divided by the int 0 raises DivisionByZero, or
\* InvalidOperation when the Decimal is 0 too.
WeightedResponse(rs, ws) ==
    LET total_weight == RSumSeq([i \in DOMAIN ws |-> ws[i].v])
        cost_sum == WeightedSum(rs, ws, "cost")
        best_response == BestResponse(rs)
    IN  IF \E i \in DOMAIN ws : ws[i].ty = "float"
        THEN [kind |-> "raised", exc |-> "TypeError", resp |-> None]
        ELSE IF total_weight = Zero
        THEN [kind |-> "raised",
              exc |-> IF cost_sum = Zero THEN "InvalidOperation" ELSE "DivisionByZero",
              resp |-> None]
        ELSE [kind |-> "response", exc |-> "",
              resp |-> Some(
                [obj |-> 0, source |-> "Composite",
                 confidence_score |-> RDiv(WeightedSum(rs, ws, "confidence"), total_weight),
                 material_unit_cost |-> Some([ty |-> "Decimal",
                                              v |-> RDiv(cost_sum, total_weight)]),
                 labor_hours_per_unit |-> best_response.labor_hours_per_unit,
                 labor_rate_per_hour |-> best_response.labor_rate_per_hour,
                 equipment_cost_per_unit |-> best_response.equipment_cost_per_unit,
                 overhead_rate |-> best_response.overhead_rate,
                 profit_rate |-> best_response.profit_rate])]

\* CompositePricingProvider.get_weighted_pricing
GetWeightedPricing ==
    /\ LET c == Collect(providers, Request, 1,
                        [raised |-> FALSE, responses |-> <<>>, queried |-> {}], TRUE)
           weights == [i \in DOMAIN c.responses |->
                          WeightOf(provider_weights, c.responses[i].source)]
           w == WeightedResponse(c.responses, weights)
       IN  g_last' =
             IF c.raised
             THEN [op |-> "get_weighted_pricing", kind |-> "raised", resp |-> None,
                   exc |-> "Exception", queried |-> c.queried]
             ELSE IF c.responses = <<>>
             THEN [op |-> "get_weighted_pricing", kind |-> "None", resp |-> None,
                   exc |-> "", queried |-> c.queried]
             ELSE [op |-> "get_weighted_pricing", kind |-> w.kind, resp |-> w.resp,
                   exc |-> w.exc, queried |-> c.queried]
    /\ UNCHANGED <<providers, provider_weights>>
    /\ UNCHANGED besideComposite

NextComposite == GetPricing \/ SetProviderWeight \/ GetWeightedPricing

\* ------------------------------------------------------------------------
\* PricingCache
\* ------------------------------------------------------------------------
Keys == {"A", "B", "C"}
Values == {"r1", "r2"}

\* the keys of access_times
KeysOf(at) == {at[i].key : i \in DOMAIN at}

\* min(self.access_times.keys(), key=lambda k: self.access_times[k]): the
\* first key, in the dict's order, among those with the smallest time
OldestKey(at) ==
    at[CHOOSE i \in DOMAIN at :
          \A j \in DOMAIN at : at[i].t < at[j].t \/ (at[i].t = at[j].t /\ i <= j)].key

\* d[k] = t on a dict: a key it holds keeps its place, a new key goes last
PutTime(at, k, t) ==
    IF k \in KeysOf(at)
    THEN [i \in DOMAIN at |-> IF at[i].key = k THEN [key |-> k, t |-> t] ELSE at[i]]
    ELSE Append(at, [key |-> k, t |-> t])

\* a slip: the time of the evicted key stays
DelTimeKept(at, k) == at

\* del d[k]
DelTime(at, k) == SelectSeq(at, LAMBDA e : e.key # k)

\* the order of last access after an access to k
Touch(rec, k) == Append(SelectSeq(rec, LAMBDA x : x # k), k)

NoCacheCall == [op |-> "none", key |-> "", ret |-> None, evicted |-> {}, lru |-> None,
                was_full |-> FALSE, was_new |-> FALSE]

InitCache ==
    /\ max_size \in 1..MaxSize
    /\ cache = [k \in {} |-> "r1"]
    /\ access_times = <<>>
    /\ now = 0
    /\ recency = <<>>
    /\ k_last = NoCacheCall

\* time passes between two calls: datetime.now() reads a later time.  Calls
\* with no Tick between them read the same time: datetime.now() counts
\* microseconds, and consecutive calls do fall into one.
Tick ==
    /\ now < MaxClock
    /\ now' = now + 1
    /\ UNCHANGED <<max_size, cache, access_times, recency, k_last>>
    /\ UNCHANGED besideCache

\* PricingCache.get
CacheGet ==
    /\ \E key \in Keys :
          IF key \in DOMAIN cache
          THEN /\ access_times' = PutTime(access_times, key, now)
               /\ recency' = Touch(recency, key)
               /\ k_last' = [NoCacheCall EXCEPT !.op = "get", !.key = key,
                                                !.ret = Some(cache[key])]
          ELSE /\ k_last' = [NoCacheCall EXCEPT !.op = "get", !.key = key]
               /\ UNCHANGED <<access_times, recency>>
    /\ UNCHANGED <<max_size, cache, now>>
    /\ UNCHANGED besideCache

\* PricingCache.set
CacheSet ==
    /\ \E key \in Keys, value \in Values :
          LET full == Cardinality(DOMAIN cache) >= max_size
              oldest_key == OldestKey(access_times)
              kept == IF full THEN DOMAIN cache \ {oldest_key} ELSE DOMAIN cache
              times == IF full THEN DelTime(access_times, oldest_key) ELSE access_times
              rec == IF full THEN SelectSeq(recency, LAMBDA x : x # oldest_key)
                     ELSE recency
          IN  /\ cache' = [k \in kept \cup {key} |-> IF k = key THEN value ELSE cache[k]]
              /\ access_times' = PutTime(times, key, now)
              /\ recency' = Touch(rec, key)
              /\ k_last' = [op |-> "set", key |-> key, ret |-> None,
                            evicted |-> DOMAIN cache \ (kept \cup {key}),
                            lru |-> IF recency = <<>> THEN None ELSE Some(Head(recency)),
                            was_full |-> Cardinality(DOMAIN cache) = max_size,
                            was_new |-> key \notin DOMAIN cache]
    /\ UNCHANGED <<max_size, now>>
    /\ UNCHANGED besideCache

\* PricingCache.clear
CacheClear ==
    /\ cache' = [k \in {} |-> "r1"]
    /\ access_times' = <<>>
    /\ recency' = <<>>
    /\ k_last' = [NoCacheCall EXCEPT !.op = "clear"]
    /\ UNCHANGED <<max_size, now>>
    /\ UNCHANGED besideCache

NextCache == Tick \/ CacheGet \/ CacheSet \/ CacheClear

\* ------------------------------------------------------------------------
\* Calculation runs calling one PricingCache at the same time.  The class
\* takes no lock, so a run can be pre-empted between any two statements of
\* get and set; each statement below is one step.  (The interpreter can also
\* switch inside line 257, between two calls of the key lambda; that finer
\* interleaving is not modelled.)  A position is the number of the line of
\* base.py the run is about to execute.
\* ------------------------------------------------------------------------
MaxRuns == 2
MaxCalls == 2       \* calls of get and set one run makes

IdleRun == [pc |-> "idle", key |-> "", value |-> "", oldest_key |-> "", exc |-> None,
            calls |-> 0]

\* the run is back from a call: only its count of calls is kept
Returned(run) == [IdleRun EXCEPT !.calls = run.calls]

Raised(run, type, line) ==
    [run EXCEPT !.pc = "raised", !.exc = Some([type |-> type, line |-> line])]

InitRuns ==
    /\ max_size \in 1..MaxSize
    /\ cache = [k \in {} |-> "r1"]
    /\ access_times = <<>>
    /\ now = 0
    /\ recency = <<>>
    /\ k_last = NoCacheCall
    /\ runs = [r \in 1..MaxRuns |-> IdleRun]

\* a run calls get(key); line 246: if key in self.cache (else return None)
RunGet246 ==
    /\ \E r \in DOMAIN runs, key \in Keys :
          /\ runs[r].pc = "idle"
          /\ runs[r].calls < MaxCalls
          /\ runs' = [runs EXCEPT ![r] =
                         IF key \in DOMAIN cache
                         THEN [IdleRun EXCEPT !.pc = "247", !.key = key,
                                              !.calls = runs[r].calls + 1]
                         ELSE [IdleRun EXCEPT !.calls = runs[r].calls + 1]]
    /\ UNCHANGED <<cacheVars, besideRuns>>

\* line 247: self.access_times[key] = datetime.now()
RunGet247 ==
    /\ \E r \in DOMAIN runs :
          /\ runs[r].pc = "247"
          /\ access_times' = PutTime(access_times, runs[r].key, now)
          /\ runs' = [runs EXCEPT ![r].pc = "248"]
    /\ UNCHANGED <<max_size, cache, now, recency, k_last, besideRuns>>

\* line 248: return self.cache[key]
RunGet248 ==
    /\ \E r \in DOMAIN runs :
          /\ runs[r].pc = "248"
          /\ runs' = [runs EXCEPT ![r] =
                         IF runs[r].key \in DOMAIN cache
                         THEN Returned(runs[r])
                         ELSE Raised(runs[r], "KeyError", 248)]
    /\ UNCHANGED <<cacheVars, besideRuns>>

\* a run calls set(key, value); line 253: if len(self.cache) >= self.max_size
RunSet253 ==
    /\ \E r \in DOMAIN runs, key \in Keys, value \in Values :
          /\ runs[r].pc = "idle"
          /\ runs[r].calls < MaxCalls
          /\ runs' = [runs EXCEPT ![r] =
                         [IdleRun EXCEPT !.key = key, !.value = value,
                                         !.calls = runs[r].calls + 1,
                                         !.pc = IF Cardinality(DOMAIN cache) >= max_size
                                                THEN "257" ELSE "261"]]
    /\ UNCHANGED <<cacheVars, besideRuns>>

\* line 257: oldest_key = min(self.access_times.keys(), key=...); min of an
\* empty sequence raises ValueError
RunSet257 ==
    /\ \E r \in DOMAIN runs :
          /\ runs[r].pc = "257"
          /\ runs' = [runs EXCEPT ![r] =
                         IF access_times = <<>>
                         THEN Raised(runs[r], "ValueError", 257)
                         ELSE [runs[r] EXCEPT !.pc = "258",
                                              !.oldest_key = OldestKey(access_times)]]
    /\ UNCHANGED <<cacheVars, besideRuns>>

\* line 258: del self.cache[oldest_key]
RunSet258 ==
    /\ \E r \in DOMAIN runs :
          /\ runs[r].pc = "258"
          /\ IF runs[r].oldest_key \in DOMAIN cache
             THEN /\ cache' = [k \in DOMAIN cache \ {runs[r].oldest_key} |-> cache[k]]
                  /\ runs' = [runs EXCEPT ![r].pc = "259"]
             ELSE /\ runs' = [runs EXCEPT ![r] = Raised(runs[r], "KeyError", 258)]
                  /\ UNCHANGED cache
    /\ UNCHANGED <<max_size, access_times, now, recency, k_last, besideRuns>>

\* line 259: del self.access_times[oldest_key]
RunSet259 ==
    /\ \E r \in DOMAIN runs :
          /\ runs[r].pc = "259"
          /\ IF runs[r].oldest_key \in KeysOf(access_times)
             THEN /\ access_times' = DelTime(access_times, runs[r].oldest_key)
                  /\ runs' = [runs EXCEPT ![r].pc = "261"]
             ELSE /\ runs' = [runs EXCEPT ![r] = Raised(runs[r], "KeyError", 259)]
                  /\ UNCHANGED access_times
    /\ UNCHANGED <<max_size, cache, now, recency, k_last, besideRuns>>

\* line 261: self.cache[key] = value
RunSet261 ==
    /\ \E r \in DOMAIN runs :
          /\ runs[r].pc = "261"
          /\ cache' = [k \in DOMAIN cache \cup {runs[r].key} |->
                          IF k = runs[r].key THEN runs[r].value ELSE cache[k]]
          /\ runs' = [runs EXCEPT ![r].pc = "262"]
    /\ UNCHANGED <<max_size, access_times, now, recency, k_last, besideRuns>>

\* line 262: self.access_times[key] = datetime.now(); set returns
RunSet262 ==
    /\ \E r \in DOMAIN runs :
          /\ runs[r].pc = "262"
          /\ access_times' = PutTime(access_times, runs[r].key, now)
          /\ runs' = [runs EXCEPT ![r] = Returned(runs[r])]
    /\ UNCHANGED <<max_size, cache, now, recency, k_last, besideRuns>>

NextRuns ==
    \/ Tick
    \/ RunGet246 \/ RunGet247 \/ RunGet248
    \/ RunSet253 \/ RunSet257 \/ RunSet258 \/ RunSet259 \/ RunSet261 \/ RunSet262

\* ------------------------------------------------------------------------
\* CostRollup (estimator/rollups.py): inputs
\* ------------------------------------------------------------------------
MaxCalcs == 2
MaxRooms == 2

\* the ids calculations are keyed by; "z" is the id of no line item
CalcIds == <<"a", "b", "z">>

\* CostCalculation: what the calculator found for one line item
WithBreakdown ==
    [material_cost |-> Q(40, 1), labor_cost |-> Q(20, 1), equipment_cost |-> Zero,
     total_cost |-> Q(70, 1), quantity |-> Q(2, 1),
     breakdown |-> [k \in {"overhead", "profit", "subtotal"} |->
                       IF k = "overhead" THEN Q(6, 1)
                       ELSE IF k = "profit" THEN Q(4, 1) ELSE Q(60, 1)]]

WithoutBreakdown ==
    [material_cost |-> Q(7, 1), labor_cost |-> Zero, equipment_cost |-> Q(3, 1),
     total_cost |-> Q(10, 1), quantity |-> One,
     breakdown |-> [k \in {} |-> Zero]]

CostCalculation(id, profile) ==
    [line_item_id |-> id, material_cost |-> profile.material_cost,
     labor_cost |-> profile.labor_cost, equipment_cost |-> profile.equipment_cost,
     total_cost |-> profile.total_cost, quantity |-> profile.quantity,
     breakdown |-> profile.breakdown]

\* the calculations a dict can hold under each id
CalculationsOf(id) ==
    IF id = "a" THEN {CostCalculation(id, WithBreakdown), CostCalculation(id, WithoutBreakdown)}
    ELSE IF id = "b" THEN {CostCalculation(id, WithoutBreakdown)}
    ELSE {CostCalculation(id, WithBreakdown)}

\* the calculations dicts: up to MaxCalcs ids, in the order of CalcIds
CalculationMaps ==
    { c \in UNION { [1..n -> UNION {CalculationsOf(CalcIds[i]) : i \in DOMAIN CalcIds}] :
                    n \in 0..MaxCalcs } :
        \A i, j \in DOMAIN c :
            i < j => \E x, y \in DOMAIN CalcIds :
                        x < y /\ c[i].line_item_id = CalcIds[x] /\ c[j].line_item_id = CalcIds[y] }

\* LineItem: how an item is classified and the rooms it declares ("Z" is the
\* name of no room)
LineItem(id, class, tags) ==
    [id |-> id, phase |-> class.phase, trade |-> class.trade,
     cost_type |-> class.cost_type, rooms |-> tags]

Structural == [phase |-> "foundation", trade |-> "concrete", cost_type |-> "labor"]
Finishing == [phase |-> "finishes", trade |-> "finishes", cost_type |-> "material"]

\* the line item lists: at most one item per id, in the order of the ids
LineItemLists ==
    LET itemsA == { <<>> } \cup
                  { <<LineItem("a", c, t)>> : c \in {Structural, Finishing},
                                              t \in { <<>>, <<"A", "B">>, <<"B", "Z">> } }
        itemsB == { <<>> } \cup
                  { <<LineItem("b", Finishing, t)>> : t \in { <<>>, <<"A", "B">> } }
    IN  { x \o y : x \in itemsA, y \in itemsB }

\* Room: name and area (the schema requires area > 0)
RoomNames == <<"A", "B", "C">>

AreasOf(name) == IF name = "A" THEN {Q(100, 1), Q(200, 1)} ELSE {Q(200, 1)}

RoomLists ==
    UNION { { r \in [1..n -> [name : {RoomNames[i] : i \in 1..n}, area : {Q(100, 1), Q(200, 1)}]] :
                \A i \in 1..n : r[i].name = RoomNames[i] /\ r[i].area \in AreasOf(r[i].name) } :
            n \in 0..MaxRooms }

\* ------------------------------------------------------------------------
\* CostRollup: the rollups by phase, trade, cost type and phase x trade
\* ------------------------------------------------------------------------
\* the bucket a defaultdict makes for a key it does not hold yet
EmptyBucket ==
    [material |-> Zero, labor |-> Zero, equipment |-> Zero, overhead |-> Zero,
     profit |-> Zero, subtotal |-> Zero, total |-> Zero, line_items |-> <<>>,
     quantity |-> Zero]

EmptyCostTypeBucket ==
    [total |-> Zero, line_items |-> <<>>, quantity |-> Zero,
     by_trade |-> [k \in {} |-> Zero], by_phase |-> [k \in {} |-> Zero]]

\* d[k] on a defaultdict whose missing keys read as dflt
GetItem(d, k, dflt) == IF k \in DOMAIN d THEN d[k] ELSE dflt

\* d[k] = v
SetItem(d, k, v) == [x \in DOMAIN d \cup {k} |-> IF x = k THEN v ELSE d[x]]

\* {item.id: item.<field> for item in line_items}.get(id, dflt): of several
\* items with one id the dict keeps the last
MapGet(lis, id, field, dflt) ==
    LET at == {i \in DOMAIN lis : lis[i].id = id}
    IN  IF at = {} THEN dflt
        ELSE lis[CHOOSE i \in at : \A j \in at : j <= i][field]

\* bucket[f] += calc.breakdown[f], only if the breakdown has f
AddBreakdown(amount, calc, f) ==
    IF f \in DOMAIN calc.breakdown THEN DecAdd(amount, calc.breakdown[f]) ELSE amount

\* the additions of one pass of the loop to the bucket of the calculation;
\* a slip: the total built from the three direct costs
AddToBucketDirectOnly(b, calc) ==
    [material |-> DecAdd(b.material, calc.material_cost),
     labor |-> DecAdd(b.labor, calc.labor_cost),
     equipment |-> DecAdd(b.equipment, calc.equipment_cost),
     overhead |-> AddBreakdown(b.overhead, calc, "overhead"),
     profit |-> AddBreakdown(b.profit, calc, "profit"),
     subtotal |-> AddBreakdown(b.subtotal, calc, "subtotal"),
     total |-> DecAdd(b.total, DecAdd(DecAdd(calc.material_cost, calc.labor_cost),
                                      calc.equipment_cost)),
     line_items |-> Append(b.line_items, calc.line_item_id),
     quantity |-> DecAdd(b.quantity, calc.quantity)]

AddToBucket(b, calc) ==
    [material |-> DecAdd(b.material, calc.material_cost),
     labor |-> DecAdd(b.labor, calc.labor_cost),
     equipment |-> DecAdd(b.equipment, calc.equipment_cost),
     overhead |-> AddBreakdown(b.overhead, calc, "overhead"),
     profit |-> AddBreakdown(b.profit, calc, "profit"),
     subtotal |-> AddBreakdown(b.subtotal, calc, "subtotal"),
     total |-> DecAdd(b.total, calc.total_cost),
     line_items |-> Append(b.line_items, calc.line_item_id),
     quantity |-> DecAdd(b.quantity, calc.quantity)]

\* a slip: the operation goes on with the buckets of its preceding call
RollupOfEarlierCall(op) ==
    IF r_last.op = op THEN r_last.result ELSE [k \in {} |-> EmptyBucket]

\* the defaultdict an operation creates when it is called (lines 27, 67, 107,
\* 143, 219): no key yet
NewRollup(op) == [k \in {} |-> EmptyBucket]

\* for calc_id, calc in calculations.items(): the bucket keys[i] takes calc i
RECURSIVE Accumulate(_, _, _, _)
Accumulate(calcs, keys, i, acc) ==
    IF i > Len(calcs) THEN acc
    ELSE Accumulate(calcs, keys, i + 1,
                    SetItem(acc, keys[i],
                            AddToBucket(GetItem(acc, keys[i], EmptyBucket), calcs[i])))

rollup_by_phase(calcs, lis) ==
    Accumulate(calcs,
               [i \in DOMAIN calcs |-> MapGet(lis, calcs[i].line_item_id, "phase", "general")],
               1, NewRollup("rollup_by_phase"))

rollup_by_trade(calcs, lis) ==
    Accumulate(calcs,
               [i \in DOMAIN calcs |-> MapGet(lis, calcs[i].line_item_id, "trade", "general")],
               1, NewRollup("rollup_by_trade"))

\* one pass of the loop of rollup_by_cost_type
AddToCostTypeBucket(b, calc, trade, phase) ==
    [total |-> DecAdd(b.total, calc.total_cost),
     line_items |-> Append(b.line_items, calc.line_item_id),
     quantity |-> DecAdd(b.quantity, calc.quantity),
     by_trade |-> SetItem(b.by_trade, trade,
                          DecAdd(GetItem(b.by_trade, trade, Zero), calc.total_cost)),
     by_phase |-> SetItem(b.by_phase, phase,
                          DecAdd(GetItem(b.by_phase, phase, Zero), calc.total_cost))]

RECURSIVE AccumulateCostType(_, _, _, _)
AccumulateCostType(calcs, lis, i, acc) ==
    IF i > Len(calcs) THEN acc
    ELSE LET id == calcs[i].line_item_id
             cost_type == MapGet(lis, id, "cost_type", "material")
             trade == MapGet(lis, id, "trade", "general")
             phase == MapGet(lis, id, "phase", "general")
         IN  AccumulateCostType(calcs, lis, i + 1,
                 SetItem(acc, cost_type,
                         AddToCostTypeBucket(GetItem(acc, cost_type, EmptyCostTypeBucket),
                                             calcs[i], trade, phase)))

rollup_by_cost_type(calcs, lis) ==
    AccumulateCostType(calcs, lis, 1, NewRollup("rollup_by_cost_type"))

\* f"{phase.value}_{trade.value}"
FlatKey(pair) == pair[1] \o "_" \o pair[2]

\* the buckets are built per (phase, trade) and then stored under the flat
\* key of the pair; two pairs with one flat key would share an entry, the
\* later one winning (the values of Phase and Trade give no such two pairs)
rollup_by_phase_and_trade(calcs, lis) ==
    LET nested == Accumulate(calcs,
                      [i \in DOMAIN calcs |->
                          << MapGet(lis, calcs[i].line_item_id, "phase", "general"),
                             MapGet(lis, calcs[i].line_item_id, "trade", "general") >>],
                      1, NewRollup("rollup_by_phase_and_trade"))
    IN  [key \in {FlatKey(pair) : pair \in DOMAIN nested} |->
            nested[CHOOSE pair \in DOMAIN nested : FlatKey(pair) = key]]

\* ------------------------------------------------------------------------
\* CostRollup.rollup_by_room
\* ------------------------------------------------------------------------
EmptyRoomBucket ==
    [material |-> Zero, labor |-> Zero, equipment |-> Zero, overhead |-> Zero,
     profit |-> Zero, subtotal |-> Zero, total |-> Zero, line_items |-> <<>>,
     area |-> Zero, cost_per_sf |-> Zero]

\* next((item for item in line_items if item.id == calc_id), None)
FirstLineItem(lis, id) ==
    LET at == {i \in DOMAIN lis : lis[i].id = id}
    IN  IF at = {} THEN None ELSE Some(lis[CHOOSE i \in at : \A j \in at : i <= j])

\* sum(room.area for room in rooms): sum starts from 0
RECURSIVE TotalArea(_)
TotalArea(rs) ==
    IF rs = <<>> THEN Zero
    ELSE DecAdd(TotalArea(SubSeq(rs, 1, Len(rs) - 1)), rs[Len(rs)].area)

\* room_name_map[room_name]: of several rooms with one name the last
RoomNamed(rs, name) ==
    LET at == {i \in DOMAIN rs : rs[i].name = name}
    IN  rs[CHOOSE i \in at : \A j \in at : j <= i]

\* the costs of calc multiplied by ratio
Scaled(calc, ratio) ==
    [material |-> DecMul(calc.material_cost, ratio),
     labor |-> DecMul(calc.labor_cost, ratio),
     equipment |-> DecMul(calc.equipment_cost, ratio),
     breakdown |-> [f \in DOMAIN calc.breakdown |-> DecMul(calc.breakdown[f], ratio)],
     total |-> DecMul(calc.total_cost, ratio)]

Unscaled(calc) ==
    [material |-> calc.material_cost, labor |-> calc.labor_cost,
     equipment |-> calc.equipment_cost, breakdown |-> calc.breakdown,
     total |-> calc.total_cost]

\* lines 170-186, a slip: every room gets the same share
SharesSplitEvenly(calc, rs) ==
    [i \in DOMAIN rs |->
        [room |-> rs[i].name, area |-> rs[i].area,
         costs |-> Scaled(calc, DecDiv(One, Q(Len(rs), 1)))]]

\* lines 170-186: what an item that declares no rooms adds, room by room
Shares(calc, rs) ==
    LET total_area == TotalArea(rs)
    IN  [i \in DOMAIN rs |->
            [room |-> rs[i].name, area |-> rs[i].area,
             costs |-> Scaled(calc, DecDiv(rs[i].area, total_area))]]

\* lines 189-206, a slip: the amount divided between the declared rooms
FullAmountsDivided(calc, tags, rs) ==
    LET known == SelectSeq(tags, LAMBDA name : name \in {rs[i].name : i \in DOMAIN rs})
    IN  [i \in DOMAIN known |->
            [room |-> known[i], area |-> RoomNamed(rs, known[i]).area,
             costs |-> Scaled(calc, DecDiv(One, Q(Len(known), 1)))]]

\* lines 189-206: what an item adds to the rooms it declares; a declared name
\* that is not in room_name_map is passed over
FullAmounts(calc, tags, rs) ==
    LET known == SelectSeq(tags, LAMBDA name : name \in {rs[i].name : i \in DOMAIN rs})
    IN  [i \in DOMAIN known |->
            [room |-> known[i], area |-> RoomNamed(rs, known[i]).area,
             costs |-> Unscaled(calc)]]

\* the body both branches share: the += on the bucket of one room
AddToRoomBucket(b, id, add) ==
    [material |-> DecAdd(b.material, add.costs.material),
     labor |-> DecAdd(b.labor, add.costs.labor),
     equipment |-> DecAdd(b.equipment, add.costs.equipment),
     overhead |-> IF "overhead" \in DOMAIN add.costs.breakdown
                  THEN DecAdd(b.overhead, add.costs.breakdown["overhead"]) ELSE b.overhead,
     profit |-> IF "profit" \in DOMAIN add.costs.breakdown
                THEN DecAdd(b.profit, add.costs.breakdown["profit"]) ELSE b.profit,
     subtotal |-> IF "subtotal" \in DOMAIN add.costs.breakdown
                  THEN DecAdd(b.subtotal, add.costs.breakdown["subtotal"]) ELSE b.subtotal,
     total |-> DecAdd(b.total, add.costs.total),
     line_items |-> Append(b.line_items, id),
     area |-> add.area,
     cost_per_sf |-> b.cost_per_sf]

RECURSIVE AddAll(_, _, _, _)
AddAll(acc, id, adds, i) ==
    IF i > Len(adds) THEN acc
    ELSE AddAll(SetItem(acc, adds[i].room,
                        AddToRoomBucket(GetItem(acc, adds[i].room, EmptyRoomBucket),
                                        id, adds[i])),
                id, adds, i + 1)

\* what one pass of the loop (lines 159-206) adds: nothing when no line item
\* has the id ("skipped"), nothing when the item declares no rooms and the
\* total area is not positive ("no_area")
Added(calc, lis, rs) ==
    LET line_item == FirstLineItem(lis, calc.line_item_id)
    IN  IF line_item = None
        THEN [id |-> calc.line_item_id, branch |-> "skipped", adds |-> <<>>]
        ELSE IF line_item[1].rooms = <<>>
        THEN IF RLess(Zero, TotalArea(rs))
             THEN [id |-> calc.line_item_id, branch |-> "proportional",
                   adds |-> Shares(calc, rs)]
             ELSE [id |-> calc.line_item_id, branch |-> "no_area", adds |-> <<>>]
        ELSE [id |-> calc.line_item_id, branch |-> "declared",
              adds |-> FullAmounts(calc, line_item[1].rooms, rs)]

\* lines 209-211: the cost per square foot of each room
CostPerSf(acc, rs) ==
    [name \in DOMAIN acc |->
        IF RLess(Zero, acc[name].area)
        THEN [acc[name] EXCEPT !.cost_per_sf = DecDiv(acc[name].total, acc[name].area)]
        ELSE acc[name]]

NoPass == [id |-> "", branch |-> "none", adds |-> <<>>]
NoRollup == [op |-> "none", args |-> <<>>, result |-> <<>>, exc |-> None]

InitRollup ==
    /\ calculations \in CalculationMaps
    /\ line_items \in LineItemLists
    /\ rooms \in RoomLists
    /\ r_pc = "idle"
    /\ r_pos = 1
    /\ room_rollup = [k \in {} |-> EmptyRoomBucket]
    /\ r_added = NoPass
    /\ r_last = NoRollup

RollupByPhase ==
    /\ r_pc = "idle"
    /\ r_last' = [NoRollup EXCEPT !.op = "rollup_by_phase",
                                   !.result = rollup_by_phase(calculations, line_items)]
    /\ UNCHANGED <<calculations, line_items, rooms, r_pc, r_pos, room_rollup, r_added>>
    /\ UNCHANGED besideRollup

RollupByTrade ==
    /\ r_pc = "idle"
    /\ r_last' = [NoRollup EXCEPT !.op = "rollup_by_trade",
                                   !.result = rollup_by_trade(calculations, line_items)]
    /\ UNCHANGED <<calculations, line_items, rooms, r_pc, r_pos, room_rollup, r_added>>
    /\ UNCHANGED besideRollup

RollupByCostType ==
    /\ r_pc = "idle"
    /\ r_last' = [NoRollup EXCEPT !.op = "rollup_by_cost_type",
                                   !.result = rollup_by_cost_type(calculations, line_items)]
    /\ UNCHANGED <<calculations, line_items, rooms, r_pc, r_pos, room_rollup, r_added>>
    /\ UNCHANGED besideRollup

RollupByPhaseAndTrade ==
    /\ r_pc = "idle"
    /\ r_last' = [NoRollup EXCEPT !.op = "rollup_by_phase_and_trade",
                                   !.result = rollup_by_phase_and_trade(calculations, line_items)]
    /\ UNCHANGED <<calculations, line_items, rooms, r_pc, r_pos, room_rollup, r_added>>
    /\ UNCHANGED besideRollup

\* rollup_by_room is called: lines 143-157
RollupByRoomCall ==
    /\ r_pc = "idle"
    /\ r_pc' = "loop"
    /\ r_pos' = 1
    /\ room_rollup' = NewRollup("rollup_by_room")
    /\ r_added' = NoPass
    /\ r_last' = NoRollup
    /\ UNCHANGED <<calculations, line_items, rooms>>
    /\ UNCHANGED besideRollup

\* one pass of the loop over calculations.items(): lines 159-206
RollupByRoomPass ==
    /\ r_pc = "loop"
    /\ r_pos <= Len(calculations)
    /\ LET added == Added(calculations[r_pos], line_items, rooms)
       IN  /\ r_added' = added
           /\ room_rollup' = AddAll(room_rollup, added.id, added.adds, 1)
    /\ r_pos' = r_pos + 1
    /\ UNCHANGED <<calculations, line_items, rooms, r_pc, r_last>>
    /\ UNCHANGED besideRollup

\* after the loop: lines 209-213
RollupByRoomReturn ==
    /\ r_pc = "loop"
    /\ r_pos > Len(calculations)
    /\ r_last' = [NoRollup EXCEPT !.op = "rollup_by_room",
                                   !.result = CostPerSf(room_rollup, rooms)]
    /\ r_pc' = "idle"
    /\ UNCHANGED <<calculations, line_items, rooms, r_pos, room_rollup, r_added>>
    /\ UNCHANGED besideRollup

\* rollup_by_room as one call: the passes of the loop from calculation i on
RECURSIVE RoomRollupFrom(_, _, _, _, _)
RoomRollupFrom(calcs, lis, rs, i, acc) ==
    IF i > Len(calcs) THEN acc
    ELSE LET added == Added(calcs[i], lis, rs)
         IN  RoomRollupFrom(calcs, lis, rs, i + 1, AddAll(acc, added.id, added.adds, 1))

rollup_by_room(calcs, lis, rs) ==
    CostPerSf(RoomRollupFrom(calcs, lis, rs, 1, NewRollup("rollup_by_room")), rs)

\* ------------------------------------------------------------------------
\* A caller of several rollups on one CostRollup, as create_summary_report
\* (lines 270-274) is: it holds the result of its first call while it makes
\* the later ones
\* ------------------------------------------------------------------------
NoFirst == [op |-> "none", args |-> <<>>, result |-> <<>>, again |-> FALSE]

InitReport ==
    /\ calculations \in CalculationMaps
    /\ line_items \in LineItemLists
    /\ rooms \in RoomLists
    /\ r_pc = "idle"
    /\ r_pos = 1
    /\ room_rollup = [k \in {} |-> EmptyRoomBucket]
    /\ r_added = NoPass
    /\ r_last = NoRollup
    /\ r_first = NoFirst

besideReport == <<computeVars, compositeVars, cacheVars, runVars, classVars, csvVars,
    prodVars, authVars>>

\* what the caller holds once a call has returned: the first call's arguments
\* and result
Held(returned) ==
    IF r_first.op = "none"
    THEN [op |-> returned.op, args |-> <<calculations, line_items, rooms>>,
          result |-> returned.result, again |-> FALSE]
    ELSE [r_first EXCEPT !.again = TRUE]

\* line 270
CallRollupByPhase ==
    /\ r_last' = [NoRollup EXCEPT !.op = "rollup_by_phase",
                                   !.result = rollup_by_phase(calculations, line_items)]
    /\ r_first' = Held(r_last')
    /\ UNCHANGED <<calculations, line_items, rooms, r_pc, r_pos, room_rollup, r_added>>
    /\ UNCHANGED besideReport

\* line 271
CallRollupByTrade ==
    /\ r_last' = [NoRollup EXCEPT !.op = "rollup_by_trade",
                                   !.result = rollup_by_trade(calculations, line_items)]
    /\ r_first' = Held(r_last')
    /\ UNCHANGED <<calculations, line_items, rooms, r_pc, r_pos, room_rollup, r_added>>
    /\ UNCHANGED besideReport

\* line 272
CallRollupByCostType ==
    /\ r_last' = [NoRollup EXCEPT !.op = "rollup_by_cost_type",
                                   !.result = rollup_by_cost_type(calculations, line_items)]
    /\ r_first' = Held(r_last')
    /\ UNCHANGED <<calculations, line_items, rooms, r_pc, r_pos, room_rollup, r_added>>
    /\ UNCHANGED besideReport

\* line 273
CallRollupByRoom ==
    /\ r_last' = [NoRollup EXCEPT !.op = "rollup_by_room",
                                   !.result = rollup_by_room(calculations, line_items, rooms)]
    /\ r_first' = Held(r_last')
    /\ UNCHANGED <<calculations, line_items, rooms, r_pc, r_pos, room_rollup, r_added>>
    /\ UNCHANGED besideReport

\* line 274
CallRollupByPhaseAndTrade ==
    /\ r_last' = [NoRollup EXCEPT !.op = "rollup_by_phase_and_trade",
                                   !.result = rollup_by_phase_and_trade(calculations, line_items)]
    /\ r_first' = Held(r_last')
    /\ UNCHANGED <<calculations, line_items, rooms, r_pc, r_pos, room_rollup, r_added>>
    /\ UNCHANGED besideReport

NextReport ==
    \/ CallRollupByPhase
    \/ CallRollupByTrade
    \/ CallRollupByCostType
    \/ CallRollupByRoom
    \/ CallRollupByPhaseAndTrade

\* ------------------------------------------------------------------------
\* CostAnalyzer.find_cost_outliers
\* ------------------------------------------------------------------------
\* CostCalculation declares total_cost a Decimal; the calculator works on
\* floats.  The analyzer is run on the costs held as either type.
NumberTypes == {"Decimal", "float"}
Thresholds == { Q(2, 1), One, Zero }

\* sum((cost - mean_cost) ** 2 for cost in costs) / len(costs)
Variance(costs) ==
    LET mean_cost == RDiv(RSumSeq(costs), Q(Len(costs), 1))
        sq(c) == RMul(RAdd(c, RMul(Q(-1, 1), mean_cost)), RAdd(c, RMul(Q(-1, 1), mean_cost)))
    IN  RDiv(RSumSeq([i \in DOMAIN costs |-> sq(costs[i])]), Q(Len(costs), 1))

\* lines 392-397 on floats: z_score = abs(cost - mean) / std_dev divides by
\* zero when the deviation is zero; otherwise z_score > threshold, compared
\* here on the squares (the thresholds are not negative)
Outliers(calcs, costs, threshold) ==
    LET mean_cost == RDiv(RSumSeq(costs), Q(Len(costs), 1))
        variance == Variance(costs)
    IN  IF variance.n = 0
        THEN [NoRollup EXCEPT !.exc = Some([type |-> "ZeroDivisionError", line |-> 395])]
        ELSE [NoRollup EXCEPT !.result =
                 SelectSeq([i \in DOMAIN calcs |-> calcs[i].line_item_id],
                           LAMBDA id : \E i \in DOMAIN calcs :
                               /\ calcs[i].line_item_id = id
                               /\ RLess(RMul(RMul(threshold, threshold), variance),
                                        RMul(RDist(costs[i], mean_cost),
                                             RDist(costs[i], mean_cost))))]

\* find_cost_outliers: on Decimal costs line 390, variance ** 0.5, raises
\* TypeError (Decimal ** float is not defined)
find_cost_outliers(calcs, ty, threshold) ==
    IF calcs = <<>> THEN NoRollup
    ELSE IF ty = "Decimal"
    THEN [NoRollup EXCEPT !.exc = Some([type |-> "TypeError", line |-> 390])]
    ELSE Outliers(calcs, [i \in DOMAIN calcs |-> calcs[i].total_cost], threshold)

FindCostOutliers ==
    /\ r_pc = "idle"
    /\ \E ty \in NumberTypes, threshold \in Thresholds :
          r_last' = [find_cost_outliers(calculations, ty, threshold) EXCEPT
                        !.op = "find_cost_outliers",
                        !.args = <<ty, threshold>>]
    /\ UNCHANGED <<calculations, line_items, rooms, r_pc, r_pos, room_rollup, r_added>>
    /\ UNCHANGED besideRollup

NextRollup ==
    \/ RollupByPhase \/ RollupByTrade \/ RollupByCostType \/ RollupByPhaseAndTrade
    \/ RollupByRoomCall \/ RollupByRoomPass \/ RollupByRoomReturn
    \/ FindCostOutliers

\* ------------------------------------------------------------------------
\* CostClassRanges (api/reporting.py)
\* ------------------------------------------------------------------------
\* float('inf') is the absent bound <<>>, a finite bound n is <<n>>
Inf == <<>>

\* self.default_ranges, in the order the dict literal gives them
default_ranges ==
    << [name |-> "low", min |-> 0, max |-> <<1000>>, label |-> "Low Cost"],
       [name |-> "medium", min |-> 1000, max |-> <<10000>>, label |-> "Medium Cost"],
       [name |-> "high", min |-> 10000, max |-> <<100000>>, label |-> "High Cost"],
       [name |-> "very_high", min |-> 100000, max |-> Inf, label |-> "Very High Cost"] >>

CustomNames == {"c1", "c2"}
CustomBounds == {0, 1000, 5000}
Costs == {-1, 0, 999, 1000, 4999, 5000, 10000, 100000, 100001}

\* self.custom_ranges[name] = {...}: a name the dict holds keeps its place
PutRange(rs, entry) ==
    IF \E i \in DOMAIN rs : rs[i].name = entry.name
    THEN [i \in DOMAIN rs |-> IF rs[i].name = entry.name THEN entry ELSE rs[i]]
    ELSE Append(rs, entry)

\* range_data['min'] <= cost <= range_data['max']
InRange(range_data, cost) ==
    /\ range_data.min <= cost
    /\ range_data.max = Inf \/ cost <= range_data.max[1]

\* get_cost_class: the label of the first range, in the dict's order, that
\* holds the cost
get_cost_class(custom, cost, range_set) ==
    LET ranges == IF range_set = "custom" THEN custom ELSE default_ranges
        hits == {i \in DOMAIN ranges : InRange(ranges[i], cost)}
    IN  IF hits = {} THEN "Unknown"
        ELSE ranges[CHOOSE i \in hits : \A j \in hits : i <= j].label

NoClassCall == [op |-> "none", cost |-> 0, range_set |-> "", result |-> ""]

InitClass ==
    /\ custom_ranges = <<>>
    /\ cc_last = NoClassCall

AddCustomRange ==
    /\ \E name \in CustomNames, min_val \in CustomBounds, max_val \in CustomBounds :
          custom_ranges' = PutRange(custom_ranges,
                                    [name |-> name, min |-> min_val, max |-> <<max_val>>,
                                     label |-> "Custom " \o name])
    /\ cc_last' = [NoClassCall EXCEPT !.op = "add_custom_range"]
    /\ UNCHANGED besideClass

GetCostClass ==
    /\ \E cost \in Costs, range_set \in {"default", "custom"} :
          cc_last' = [op |-> "get_cost_class", cost |-> cost, range_set |-> range_set,
                      result |-> get_cost_class(custom_ranges, cost, range_set)]
    /\ UNCHANGED custom_ranges
    /\ UNCHANGED besideClass

NextClass == AddCustomRange \/ GetCostClass

\* ------------------------------------------------------------------------
\* CSVPricingProvider (estimator/pricing/csv_provider.py)
\*
\* Text.  A string is a sequence of symbols: a word symbol ("a", "ea",
\* "concrete") stands for a run of letters, "A" and "EA" for the same runs in
\* upper case, " " for a white-space character and "|" for the bar.
\* ------------------------------------------------------------------------
MaxCatalog == 2

\* str.lower()
Lower(str) ==
    [i \in DOMAIN str |-> IF str[i] = "A" THEN "a" ELSE IF str[i] = "EA" THEN "ea" ELSE str[i]]

\* str.strip()
RECURSIVE Strip(_)
Strip(str) ==
    IF str = <<>> THEN str
    ELSE IF Head(str) = " " THEN Strip(Tail(str))
    ELSE IF str[Len(str)] = " " THEN Strip(SubSeq(str, 1, Len(str) - 1))
    ELSE str

\* re.sub(r'\s+', ' ', str)
RECURSIVE CollapseSpaces(_)
CollapseSpaces(str) ==
    IF Len(str) < 2 THEN str
    ELSE IF str[1] = " " /\ str[2] = " " THEN CollapseSpaces(Tail(str))
    ELSE <<Head(str)>> \o CollapseSpaces(Tail(str))

\* str.split(sep): the fields between the separators, empty ones included
RECURSIVE SplitFrom(_, _, _)
SplitFrom(str, sep, field) ==
    IF str = <<>> THEN <<field>>
    ELSE IF Head(str) = sep THEN <<field>> \o SplitFrom(Tail(str), sep, <<>>)
    ELSE SplitFrom(Tail(str), sep, Append(field, Head(str)))

Split(str, sep) == SplitFrom(str, sep, <<>>)

\* set(str.split()): the words between white space
Words(str) == {w \in Range(Split(str, " ")) : w # <<>>}

\* _create_lookup_key: f"{normalized_desc}|{trade.value}|{normalized_unit}"
_create_lookup_key(description, trade, unit) ==
    CollapseSpaces(Strip(Lower(description))) \o <<"|", trade, "|">> \o Strip(Lower(unit))

\* _calculate_similarity: the share of common words, as a fraction
_calculate_similarity(str1, str2) ==
    LET words1 == Words(str1)
        words2 == Words(str2)
    IN  IF words1 = {} \/ words2 = {} THEN Zero
        ELSE Q(Cardinality(words1 \cap words2), Cardinality(words1 \cup words2))

\* the loop of _find_best_match from key number i on; key.split('|') is
\* unpacked into three names and raises ValueError on any other number of
\* fields
RECURSIVE BestMatchFrom(_, _, _, _, _, _, _)
BestMatchFrom(data, i, request_desc, trade, request_unit, best_match, best_score) ==
    IF i > Len(data) THEN [raised |-> FALSE, key |-> best_match]
    ELSE LET fields == Split(data[i].key, "|")
         IN  IF Len(fields) # 3 THEN [raised |-> TRUE, key |-> None]
             ELSE IF fields[2] # <<trade>> \/ fields[3] # request_unit
             THEN BestMatchFrom(data, i + 1, request_desc, trade, request_unit,
                                best_match, best_score)
             ELSE LET score == _calculate_similarity(request_desc, fields[1])
                  IN  IF RLess(best_score, score) /\ RLess(Q(7, 10), score)
                      THEN BestMatchFrom(data, i + 1, request_desc, trade, request_unit,
                                         Some(data[i].key), score)
                      ELSE BestMatchFrom(data, i + 1, request_desc, trade, request_unit,
                                         best_match, best_score)

_find_best_match(data, description, trade, unit) ==
    BestMatchFrom(data, 1, CollapseSpaces(Strip(Lower(description))), trade,
                  Strip(Lower(unit)), None, Zero)

\* what the provider is to validate_request: available, the trades of its
\* items, and ['default'] for the locations as no labor rates are loaded
AsProvider(data) ==
    [is_available |-> TRUE, trades |-> {data[i].trade : i \in DOMAIN data},
     locations |-> {"default"}]

NoPricing == [op |-> "none", request |-> <<>>, kind |-> "none", key |-> None,
              exact |-> FALSE, confidence_score |-> Zero, exc |-> None]

\* CSVPricingProvider.get_pricing
get_pricing(data, request) ==
    LET call == [NoPricing EXCEPT !.op = "get_pricing", !.request = request,
                                  !.kind = "None"]
        keys == {data[i].key : i \in DOMAIN data}
        lookup_key == _create_lookup_key(request.item_description, request.trade,
                                         request.unit)
        found == IF lookup_key \in keys THEN [raised |-> FALSE, key |-> Some(lookup_key)]
                 ELSE _find_best_match(data, request.item_description, request.trade,
                                       request.unit)
    IN  IF ~validate_request(AsProvider(data), request) THEN call
        ELSE IF found.raised
        THEN [call EXCEPT !.kind = "raised",
                          !.exc = Some([type |-> "ValueError", line |-> 190])]
        ELSE IF found.key = None THEN call
        ELSE LET pricing_item == data[CHOOSE i \in DOMAIN data : data[i].key = found.key[1]]
             IN  [call EXCEPT !.kind = "response", !.key = found.key,
                              !.exact = lookup_key \in keys,
                              !.confidence_score =
                                  _calculate_similarity(Lower(request.item_description),
                                                        Lower(pricing_item.item_description))]

\* the texts of the catalog and of the requests
Text_abcd == <<"a", " ", "b", " ", "c", " ", "d">>
Text_abc == <<"a", " ", "b", " ", "c">>
Text_Abc == <<"A", " ", " ", "b", " ", "c", " ">>
Text_ab == <<"a", " ", "b">>
Text_dcba == <<"d", " ", "c", " ", "b", " ", "a">>
Text_a_bar_bcd == <<"a", "|", "b", " ", "c", " ", "d">>

CatalogItems ==
    { [description |-> d, trade |-> "concrete", unit |-> <<"ea">>] :
        d \in {Text_abcd, Text_abc, Text_Abc, Text_ab, Text_a_bar_bcd} }
    \cup { [description |-> Text_abcd, trade |-> "wood", unit |-> <<"ea">>],
           [description |-> Text_dcba, trade |-> "concrete", unit |-> <<"sf">>] }

Requests ==
    [item_description : {Text_abcd, Text_abc, Text_Abc, Text_ab, Text_dcba},
     trade : {"concrete", "wood"},
     unit : { <<"ea">>, <<" ", "EA">> },
     location : {"default", "US"}]

\* self.pricing_data[key] = {...}: a key the dict holds keeps its place
PutItem(data, entry) ==
    IF \E i \in DOMAIN data : data[i].key = entry.key
    THEN [i \in DOMAIN data |-> IF data[i].key = entry.key THEN entry ELSE data[i]]
    ELSE Append(data, entry)

InitCsv ==
    /\ pricing_data = <<>>
    /\ csv_last = NoPricing

\* add_pricing_item (and each row of _load_pricing_data)
AddPricingItem ==
    /\ \E item \in CatalogItems :
          LET entry == [key |-> _create_lookup_key(item.description, item.trade, item.unit),
                        item_description |-> item.description, trade |-> item.trade,
                        unit |-> item.unit]
          IN  /\ Len(PutItem(pricing_data, entry)) <= MaxCatalog
              /\ pricing_data' = PutItem(pricing_data, entry)
    /\ csv_last' = [NoPricing EXCEPT !.op = "add_pricing_item"]
    /\ UNCHANGED besideCsv

GetPricingCsv ==
    /\ \E request \in Requests : csv_last' = get_pricing(pricing_data, request)
    /\ UNCHANGED pricing_data
    /\ UNCHANGED besideCsv

NextCsv == AddPricingItem \/ GetPricingCsv

\* ------------------------------------------------------------------------
\* ProductivityDatabase and ProductivityCalculator (api/productivity.py)
\* ------------------------------------------------------------------------
MaxAdjustments == 2

besideProd == <<computeVars, compositeVars, cacheVars, runVars, rollupVars, classVars,
    csvVars, reportVars, authVars>>

\* _load_default_rates: two trades of the default table
default_rates ==
    (<<"concrete", "wall">> :> Q(20, 100)) @@ (<<"concrete", "footing">> :> Q(15, 100))
    @@ (<<"wood", "framing">> :> Q(6, 100))

\* _load_default_rates: two factor types of the default table
default_adjustment_factors ==
    (<<"weather", "good">> :> One) @@ (<<"weather", "poor">> :> Q(13, 10))
    @@ (<<"complexity", "very_complex">> :> Q(17, 10))

\* a row of the file load_custom_rates reads
CustomRates ==
    [trade : {"wood"}, item_type : {"wall"}, hours_per_unit : {Zero, Q(1, 2)}]

\* a row of the file load_custom_adjustments reads
CustomAdjustments ==
    [factor_type : {"site"}, condition : {"closed"}, multiplier : {Zero, Q(2, 1)}]

Quantities == {Zero, Q(15, 1), Q(31, 1)}

AdjustmentPairs ==
    { <<"weather", "poor">>, <<"weather", "stormy">>, <<"complexity", "very_complex">>,
      <<"shift", "night">>, <<"site", "closed">> }

\* adjustments: None, or a dict in its insertion order, one condition per
\* factor type
AdjustmentDicts ==
    {None} \cup
    {Some(d) : d \in {a \in UNION {[1..n -> AdjustmentPairs] : n \in 0..MaxAdjustments} :
                          \A i, j \in DOMAIN a : i # j => a[i][1] # a[j][1]}}

\* ProductivityDatabase.get_labor_rate
get_labor_rate(rates, trade, item_type) ==
    IF <<trade, item_type>> \in DOMAIN rates THEN Some(rates[<<trade, item_type>>]) ELSE None

\* ProductivityDatabase.get_adjustment_factor
get_adjustment_factor(factors, factor_type, condition) ==
    IF <<factor_type, condition>> \in DOMAIN factors
    THEN Some(factors[<<factor_type, condition>>]) ELSE None

\* the truth value of an Optional[Decimal]: None and zero are false
Truthy(opt) == opt # None /\ opt[1].n # 0

\* ProductivityDatabase.calculate_adjusted_hours, from adjustment number i on
RECURSIVE AdjustedFrom(_, _, _, _)
AdjustedFrom(factors, adjusted_hours, adjustments, i) ==
    IF i > Len(adjustments) THEN adjusted_hours
    ELSE LET factor == get_adjustment_factor(factors, adjustments[i][1], adjustments[i][2])
         IN  IF Truthy(factor)
             THEN AdjustedFrom(factors, DecMul(adjusted_hours, factor[1]), adjustments, i + 1)
             ELSE AdjustedFrom(factors, adjusted_hours, adjustments, i + 1)

calculate_adjusted_hours(factors, base_hours, adjustments) ==
    AdjustedFrom(factors, base_hours, adjustments, 1)

\* ProductivityCalculator.calculate_labor_hours
calculate_labor_hours(rates, factors, trade, item_type, quantity, adjustments) ==
    LET base_rate == get_labor_rate(rates, trade, item_type)
    IN  IF ~Truthy(base_rate) THEN Zero
        ELSE LET base_hours == DecMul(base_rate[1], quantity)
             IN  IF adjustments # None /\ adjustments[1] # <<>>
                 THEN calculate_adjusted_hours(factors, base_hours, adjustments[1])
                 ELSE base_hours

NoHours == [op |-> "none", trade |-> "", item_type |-> "", quantity |-> Zero,
            adjustments |-> None, result |-> Zero]

InitProd ==
    /\ labor_rates = default_rates
    /\ adjustment_factors = default_adjustment_factors
    /\ prod_last = NoHours

\* load_custom_rates, a file of one row
LoadCustomRates ==
    /\ \E row \in CustomRates :
          labor_rates' = (<<row.trade, row.item_type>> :> row.hours_per_unit) @@ labor_rates
    /\ prod_last' = [NoHours EXCEPT !.op = "load_custom_rates"]
    /\ UNCHANGED adjustment_factors
    /\ UNCHANGED besideProd

\* load_custom_adjustments, a file of one row
LoadCustomAdjustments ==
    /\ \E row \in CustomAdjustments :
          adjustment_factors' =
              (<<row.factor_type, row.condition>> :> row.multiplier) @@ adjustment_factors
    /\ prod_last' = [NoHours EXCEPT !.op = "load_custom_adjustments"]
    /\ UNCHANGED labor_rates
    /\ UNCHANGED besideProd

CalculateLaborHours ==
    /\ \E trade \in {"concrete", "wood"}, item_type \in {"wall", "stair"},
          quantity \in Quantities, adjustments \in AdjustmentDicts :
          prod_last' = [op |-> "calculate_labor_hours", trade |-> trade,
                        item_type |-> item_type, quantity |-> quantity,
                        adjustments |-> adjustments,
                        result |-> calculate_labor_hours(labor_rates, adjustment_factors,
                                                         trade, item_type, quantity,
                                                         adjustments)]
    /\ UNCHANGED <<labor_rates, adjustment_factors>>
    /\ UNCHANGED besideProd

NextProd == LoadCustomRates \/ LoadCustomAdjustments \/ CalculateLaborHours

\* ------------------------------------------------------------------------
\* OAuth login, sessions and protected routes (api/auth.py, api/main.py)
\* ------------------------------------------------------------------------
\* A session is the dict request.session of one client.  The session
\* middleware keeps it in a signed cookie which the client sends back as it
\* last received it; a key that is absent reads as None.  Times are seconds.
MaxLogins == 1

ACCESS_TOKEN_EXPIRE_MINUTES == 30
StateMaxAge == 600
SessionMaxHours == 8

timedelta(hours, minutes) == hours * 3600 + minutes * 60

SessionIds == {"s1", "s2"}
GoogleEmails == {"ann@x.com", "bob@x.com"}
AllowedLists == {<<>>, <<"Ann@x.com">>}
\* the instants at which requests arrive: the first, and those that are the
\* maximum age of a state token or of a session, or one second more, later
Instants ==
    {1, 1 + StateMaxAge, 2 + StateMaxAge, 1 + timedelta(SessionMaxHours, 0),
     2 + timedelta(SessionMaxHours, 0)}

\* str.lower() on the addresses in use
LowerEmail(email) == IF email = "Ann@x.com" THEN "ann@x.com" ELSE email

EmptySession ==
    [oauth_state |-> None, oauth_state_timestamp |-> None, authenticated |-> FALSE,
     user |-> None]

\* the userinfo Google gives for an account
UserInfo(email) == [email |-> email, name |-> "user", sub |-> email]

\* a bearer token that was not signed with SECRET_KEY
Forged == [sub |-> "ann@x.com", email |-> "ann@x.com", name |-> "user", exp |-> 0,
           signed |-> FALSE]

create_access_token(data, expires_delta, t) ==
    [sub |-> data.sub, email |-> data.email, name |-> data.name, exp |-> t + expires_delta,
     signed |-> TRUE]

\* jwt.decode checks the signature and the expiry (exp < now is expired)
verify_token(token, t) ==
    IF token.signed /\ ~(token.exp < t) /\ token.sub # "" THEN Some(token) ELSE None

is_user_authorized(email, allowed) ==
    IF allowed = <<>> THEN TRUE
    ELSE LowerEmail(email) \in {LowerEmail(allowed[i]) : i \in DOMAIN allowed}

\* the status of get_current_user: 200 with the user, 401 or 403
get_current_user(token, t, allowed) ==
    LET payload == verify_token(token, t)
    IN  IF payload = None THEN 401
        ELSE IF payload[1].email = "" \/ payload[1].name = "" \/ payload[1].sub = "" THEN 401
        ELSE IF ~is_user_authorized(payload[1].email, allowed) THEN 403
        ELSE 200

store_oauth_state(session, state, t) ==
    [session EXCEPT !.oauth_state = Some(state), !.oauth_state_timestamp = Some(t)]

\* a slip: the stored state is cleared only when the verification succeeds
VerifyClearsOnSuccess(session, received_state, t) ==
    LET stored_state == session.oauth_state
        stored_timestamp == session.oauth_state_timestamp
        ok == /\ stored_state # None
              /\ stored_timestamp # None
              /\ stored_timestamp # Some(0)
              /\ stored_state[1] = received_state
              /\ ~(t - stored_timestamp[1] > StateMaxAge)
    IN  [ok |-> ok,
         session |-> IF ok THEN [session EXCEPT !.oauth_state = None,
                                                !.oauth_state_timestamp = None]
                     ELSE session]

\* the answer of verify_oauth_state and the session it leaves
verify_oauth_state(session, received_state, t) ==
    LET stored_state == session.oauth_state
        stored_timestamp == session.oauth_state_timestamp
        popped == [session EXCEPT !.oauth_state = None, !.oauth_state_timestamp = None]
    IN  IF stored_state = None \/ stored_timestamp = None \/ stored_timestamp = Some(0)
        THEN [ok |-> FALSE, session |-> popped]
        ELSE IF stored_state[1] # received_state
        THEN [ok |-> FALSE, session |-> popped]
        ELSE IF t - stored_timestamp[1] > StateMaxAge
        THEN [ok |-> FALSE, session |-> popped]
        ELSE [ok |-> TRUE, session |-> popped]

create_user_session(session, user_info, t) ==
    [session EXCEPT
        !.user = Some([email |-> user_info.email, name |-> user_info.name,
                       sub |-> user_info.sub, login_time |-> t, last_activity |-> t]),
        !.authenticated = TRUE]

get_session_user(session) == IF ~session.authenticated THEN None ELSE session.user

update_session_activity(session, t) ==
    IF session.authenticated /\ session.user # None
    THEN [session EXCEPT !.user = Some([session.user[1] EXCEPT !.last_activity = t])]
    ELSE session

clear_user_session(session) == EmptySession

\* a slip: the session is not checked against the allowed users
SessionValidForAnyone(session, t, allowed) ==
    /\ session.authenticated
    /\ session.user # None
    /\ ~(t - session.user[1].login_time > timedelta(SessionMaxHours, 0))

is_session_valid(session, t, allowed) ==
    IF ~session.authenticated THEN FALSE
    ELSE IF session.user = None THEN FALSE
    ELSE IF t - session.user[1].login_time > timedelta(SessionMaxHours, 0) THEN FALSE
    ELSE is_user_authorized(session.user[1].email, allowed)

\* the user get_current_user_from_session gives and the session it leaves
get_current_user_from_session(session, t, allowed) ==
    IF ~is_session_valid(session, t, allowed) THEN [user |-> None, session |-> session]
    ELSE IF get_session_user(session) = None THEN [user |-> None, session |-> session]
    ELSE [user |-> Some(session.user[1].email),
          session |-> update_session_activity(session, t)]

\* the status of a route that depends on require_authentication, the user it
\* is served to and the session the request leaves; bearer is the token of an
\* Authorization header that starts with "Bearer ", None without one
require_authentication(session, bearer, t, allowed) ==
    LET session_user == get_current_user_from_session(session, t, allowed)
    IN  IF session_user.user # None
        THEN [status |-> 200, user |-> session_user.user, session |-> session_user.session]
        ELSE IF bearer # None /\ get_current_user(bearer[1], t, allowed) = 200
        THEN [status |-> 200, user |-> Some(bearer[1].email), session |-> session]
        ELSE [status |-> 401, user |-> None, session |-> session]

NoRequest ==
    [op |-> "none", session |-> "s1", received |-> None, bearer |-> None, status |-> 0]

Asked(op, s) == [NoRequest EXCEPT !.op = op, !.session = s]

InitAuth ==
    /\ sessions = [s \in SessionIds |-> EmptySession]
    /\ ALLOWED_USERS \in AllowedLists
    /\ utc_now = 1
    /\ state_tokens = 0
    /\ jwts = {}
    /\ spent = {}
    /\ logged_out = {}
    /\ a_last = NoRequest

besideAuth == <<computeVars, compositeVars, cacheVars, runVars, rollupVars, classVars,
    csvVars, prodVars, reportVars>>

\* time passes
AuthTick ==
    /\ \E t \in Instants : t > utc_now /\ utc_now' = t
    /\ UNCHANGED <<sessions, ALLOWED_USERS, state_tokens, jwts, spent, logged_out, a_last>>
    /\ UNCHANGED besideAuth

\* the process is started again with another list of allowed users
Reconfigure ==
    /\ \E allowed \in AllowedLists \ {ALLOWED_USERS} : ALLOWED_USERS' = allowed
    /\ UNCHANGED <<sessions, utc_now, state_tokens, jwts, spent, logged_out, a_last>>
    /\ UNCHANGED besideAuth

\* GET /auth/login: a state token never given out before is stored in the session
Login ==
    /\ state_tokens < MaxLogins
    /\ \E s \in SessionIds :
          /\ sessions' = [sessions EXCEPT
                             ![s] = store_oauth_state(sessions[s], state_tokens + 1, utc_now)]
          /\ a_last' = [Asked("login", s) EXCEPT !.status = 302]
    /\ state_tokens' = state_tokens + 1
    /\ UNCHANGED <<ALLOWED_USERS, utc_now, jwts, spent, logged_out>>
    /\ UNCHANGED besideAuth

\* GET /auth/callback with the state of the query string (None without one,
\* 0 a string that is no token) and what the token exchange with Google
\* gives: the account's userinfo, or "failed" when it raises or gives none
AuthCallback ==
    /\ \E s \in SessionIds, received_state \in {None} \cup {Some(k) : k \in 0..state_tokens},
          exchange \in {"failed"} \cup GoogleEmails :
           LET checked == verify_oauth_state(sessions[s], received_state[1], utc_now)
               stored == sessions[s].oauth_state
               user_info == UserInfo(exchange)
               asked == [Asked("callback", s) EXCEPT !.received = received_state]
           IN  IF received_state = None
               THEN /\ a_last' = [asked EXCEPT !.status = 400]
                    /\ UNCHANGED <<sessions, jwts, spent, logged_out>>
               ELSE /\ spent' = spent \cup {stored[i] : i \in DOMAIN stored}
                    /\ IF ~checked.ok \/ exchange = "failed"
                       THEN /\ sessions' = [sessions EXCEPT ![s] = checked.session]
                            /\ a_last' = [asked EXCEPT !.status = 400]
                            /\ UNCHANGED <<jwts, logged_out>>
                       ELSE IF ~is_user_authorized(user_info.email, ALLOWED_USERS)
                       THEN /\ sessions' = [sessions EXCEPT ![s] = checked.session]
                            /\ a_last' = [asked EXCEPT !.status = 403]
                            /\ UNCHANGED <<jwts, logged_out>>
                       ELSE /\ sessions' = [sessions EXCEPT
                                   ![s] = create_user_session(checked.session, user_info, utc_now)]
                            /\ jwts' = jwts \cup {create_access_token(user_info,
                                   timedelta(0, ACCESS_TOKEN_EXPIRE_MINUTES), utc_now)}
                            /\ logged_out' = logged_out \ {s}
                            /\ a_last' = [asked EXCEPT !.status = 302]
    /\ UNCHANGED <<ALLOWED_USERS, utc_now, state_tokens>>
    /\ UNCHANGED besideAuth

\* POST /auth/logout
Logout ==
    /\ \E s \in SessionIds :
          /\ sessions' = [sessions EXCEPT ![s] = clear_user_session(sessions[s])]
          /\ logged_out' = IF sessions[s].authenticated THEN logged_out \cup {s} ELSE logged_out
          /\ a_last' = [Asked("logout", s) EXCEPT !.status = 200]
    /\ UNCHANGED <<ALLOWED_USERS, utc_now, state_tokens, jwts, spent>>
    /\ UNCHANGED besideAuth

\* a request of a route that depends on require_authentication
ProtectedRoute ==
    /\ \E s \in SessionIds, bearer \in {None} \cup {Some(j) : j \in jwts \cup {Forged}} :
          LET answer == require_authentication(sessions[s], bearer, utc_now, ALLOWED_USERS)
          IN  /\ sessions' = [sessions EXCEPT ![s] = answer.session]
              /\ a_last' = [Asked("protected", s) EXCEPT !.bearer = bearer,
                                                         !.status = answer.status]
    /\ UNCHANGED <<ALLOWED_USERS, utc_now, state_tokens, jwts, spent, logged_out>>
    /\ UNCHANGED besideAuth

NextAuth == AuthTick \/ Reconfigure \/ Login \/ AuthCallback \/ Logout \/ ProtectedRoute

\* ------------------------------------------------------------------------
\* Specifications: one per component; the other components stay as built
\* ------------------------------------------------------------------------
ParkedCompute ==
    /\ project = [name |-> "none", estimate_class |-> "Class 3", overhead_pct |-> Zero,
                  profit_pct |-> Zero, regional_factor |-> One]
    /\ phases = <<>>
    /\ items = <<>>
    /\ c_pc = "idle"
    /\ idx = 1
    /\ rows = <<>>
    /\ phase_direct = <<>>
    /\ ret = None
    /\ err = None

ParkedComposite ==
    /\ providers = <<>>
    /\ provider_weights = <<>>
    /\ g_last = NoCall

ParkedCache ==
    /\ max_size = 1
    /\ cache = [k \in {} |-> "r1"]
    /\ access_times = <<>>
    /\ now = 0
    /\ recency = <<>>
    /\ k_last = NoCacheCall

ParkedRuns == runs = <<>>

ParkedRollup ==
    /\ calculations = <<>>
    /\ line_items = <<>>
    /\ rooms = <<>>
    /\ r_pc = "parked"
    /\ r_pos = 1
    /\ room_rollup = <<>>
    /\ r_added = NoPass
    /\ r_last = NoRollup

ParkedClass ==
    /\ custom_ranges = <<>>
    /\ cc_last = NoClassCall

ParkedCsv ==
    /\ pricing_data = <<>>
    /\ csv_last = NoPricing

ParkedProd ==
    /\ labor_rates = <<>>
    /\ adjustment_factors = <<>>
    /\ prod_last = NoHours

ParkedReport == r_first = NoFirst

ParkedAuth ==
    /\ sessions = [s \in SessionIds |-> EmptySession]
    /\ ALLOWED_USERS = <<>>
    /\ utc_now = 1
    /\ state_tokens = 0
    /\ jwts = {}
    /\ spent = {}
    /\ logged_out = {}
    /\ a_last = NoRequest

StartCompute ==
    /\ InitCompute /\ ParkedComposite /\ ParkedCache /\ ParkedRuns
    /\ ParkedRollup /\ ParkedClass /\ ParkedCsv /\ ParkedProd /\ ParkedReport /\ ParkedAuth
SpecCompute == StartCompute /\ [][NextCompute]_vars

StartComposite ==
    /\ ParkedCompute /\ InitComposite /\ ParkedCache /\ ParkedRuns
    /\ ParkedRollup /\ ParkedClass /\ ParkedCsv /\ ParkedProd /\ ParkedReport /\ ParkedAuth
SpecComposite == StartComposite /\ [][NextComposite]_vars

StartCache ==
    /\ ParkedCompute /\ ParkedComposite /\ InitCache /\ ParkedRuns
    /\ ParkedRollup /\ ParkedClass /\ ParkedCsv /\ ParkedProd /\ ParkedReport /\ ParkedAuth
SpecCache == StartCache /\ [][NextCache]_vars

StartRuns ==
    /\ ParkedCompute /\ ParkedComposite /\ InitRuns /\ ParkedRollup
    /\ ParkedClass /\ ParkedCsv /\ ParkedProd /\ ParkedReport /\ ParkedAuth
SpecRuns == StartRuns /\ [][NextRuns]_vars

StartRollup ==
    /\ ParkedCompute /\ ParkedComposite /\ ParkedCache /\ ParkedRuns
    /\ InitRollup /\ ParkedClass /\ ParkedCsv /\ ParkedProd /\ ParkedReport /\ ParkedAuth
SpecRollup == StartRollup /\ [][NextRollup]_vars

StartClass ==
    /\ ParkedCompute /\ ParkedComposite /\ ParkedCache /\ ParkedRuns
    /\ ParkedRollup /\ InitClass /\ ParkedCsv /\ ParkedProd /\ ParkedReport /\ ParkedAuth
SpecClass == StartClass /\ [][NextClass]_vars

StartCsv ==
    /\ ParkedCompute /\ ParkedComposite /\ ParkedCache /\ ParkedRuns /\ ParkedRollup
    /\ ParkedClass /\ InitCsv /\ ParkedProd /\ ParkedReport /\ ParkedAuth
SpecCsv == StartCsv /\ [][NextCsv]_vars

StartProd ==
    /\ ParkedCompute /\ ParkedComposite /\ ParkedCache /\ ParkedRuns /\ ParkedRollup
    /\ ParkedClass /\ ParkedCsv /\ InitProd /\ ParkedReport /\ ParkedAuth
SpecProd == StartProd /\ [][NextProd]_vars

StartReport ==
    /\ ParkedCompute /\ ParkedComposite /\ ParkedCache /\ ParkedRuns
    /\ ParkedClass /\ ParkedCsv /\ ParkedProd /\ InitReport /\ ParkedAuth
SpecReport == StartReport /\ [][NextReport]_vars

StartAuth ==
    /\ ParkedCompute /\ ParkedComposite /\ ParkedCache /\ ParkedRuns /\ ParkedRollup
    /\ ParkedClass /\ ParkedCsv /\ ParkedProd /\ ParkedReport /\ InitAuth
SpecAuth == StartAuth /\ [][NextAuth]_vars

\* ------------------------------------------------------------------------
\* Claims about compute
\* ------------------------------------------------------------------------
\* the item names a labor class that the roster does not hold
NamesUnknownLabor(it) ==
    /\ TruthyStr(it.labor_class)
    /\ \A i \in DOMAIN labor_classes : labor_classes[i].name # it.labor_class[1]

RECURSIVE DirectOfPhase(_, _)
\* the sum of direct_cost over the rows of rs whose phase_code is p
DirectOfPhase(rs, p) ==
    IF rs = <<>> THEN Zero
    ELSE RAdd(IF Head(rs).phase_code = p THEN Head(rs).direct_cost ELSE Zero,
              DirectOfPhase(Tail(rs), p))

RECURSIVE DirectOfAll(_)
\* the sum of direct_cost over all the rows of rs
DirectOfAll(rs) ==
    IF rs = <<>> THEN Zero ELSE RAdd(Head(rs).direct_cost, DirectOfAll(Tail(rs)))

\* C1: whenever compute returns, overhead = (direct_total +
\* phase_contingency_total) x overhead_pct, profit = (direct_total +
\* phase_contingency_total + overhead) x profit_pct and grand_total is the sum
\* of the four; with overhead_pct 0.15, profit_pct 0.10 and one item of direct
\* cost 1000 the contingency is 100, the overhead 165, the profit 126.5 and
\* the grand total 1391.5.
C1_CascadeOrder ==
    c_pc = "returned" =>
        LET s == ret[1].summary
            base == RAdd(s.direct_total, s.phase_contingency_total)
        IN  /\ s.overhead = RMul(base, project.overhead_pct)
            /\ s.profit = RMul(RAdd(base, s.overhead), project.profit_pct)
            /\ s.grand_total = RAdd(RAdd(base, s.overhead), s.profit)
            /\ (/\ project.overhead_pct = Q(15, 100)
                /\ project.profit_pct = Q(10, 100)
                /\ Len(ret[1].rows) = 1
                /\ ret[1].rows[1].direct_cost = Q(1000, 1))
               => /\ s.phase_contingency_total = Q(100, 1)
                  /\ s.overhead = Q(165, 1)
                  /\ s.profit = Q(253, 2)
                  /\ s.grand_total = Q(2783, 2)

\* compute has returned the worked example: one item of direct cost 1000
\* under overhead 15% and profit 10%, grand total 1391.5
C1_Witness ==
    /\ c_pc = "returned"
    /\ project.overhead_pct = Q(15, 100)
    /\ Len(ret[1].rows) = 1
    /\ ret[1].rows[1].direct_cost = Q(1000, 1)
    /\ ret[1].summary.grand_total = Q(2783, 2)

\* C2: in what compute returns, every row's direct_cost is labor_cost +
\* material_cost + equipment_cost + subcontract_cost, phase_direct[p] is the
\* sum of direct_cost over exactly the rows of phase p, and direct_total is
\* the sum of direct_cost over all rows.
C2_DirectCostSums ==
    c_pc = "returned" =>
        LET r == ret[1]
        IN  /\ \A i \in DOMAIN r.rows :
                  r.rows[i].direct_cost =
                      RAdd(RAdd(RAdd(r.rows[i].labor_cost, r.rows[i].material_cost),
                                r.rows[i].equipment_cost), r.rows[i].subcontract_cost)
            /\ \A p \in DOMAIN r.phase_direct :
                  r.phase_direct[p] = DirectOfPhase(r.rows, p)
            /\ \A i \in DOMAIN r.rows : r.rows[i].phase_code \in DOMAIN r.phase_direct
            /\ r.summary.direct_total = DirectOfAll(r.rows)

\* compute has returned rows of two phases, one of them with labour and one
\* with a subcontract cost
C2_Witness ==
    /\ c_pc = "returned"
    /\ \E i, j \in DOMAIN ret[1].rows :
          /\ ret[1].rows[i].phase_code # ret[1].rows[j].phase_code
          /\ ret[1].rows[i].labor_cost # Zero
    /\ \E i \in DOMAIN ret[1].rows : ret[1].rows[i].subcontract_cost # Zero

\* C3: a line item naming a labor class that is not in the roster makes
\* compute fail as a whole: the loop never gets past such an item, compute
\* never returns and nothing is returned, however many items came before it
\* and whether or not the item has a productivity entry.
C3_UnknownLaborClassFails ==
    (\E i \in DOMAIN items : NamesUnknownLabor(items[i])) =>
        /\ ret = None
        /\ c_pc \in {"loop", "raised"}
        /\ \A j \in 1..(idx - 1) : ~NamesUnknownLabor(items[j])
        /\ (c_pc = "raised" /\ err[1].line = 57) => NamesUnknownLabor(items[idx])

\* compute has failed on its second item, which names an unknown labor class
\* and has a productivity entry, after the first item was processed
C3_Witness ==
    /\ c_pc = "raised"
    /\ err[1].type = "KeyError"
    /\ err[1].line = 57
    /\ idx = 2
    /\ Len(rows) = 1
    /\ NamesUnknownLabor(items[2])
    /\ prod_by_code(items[2].code) # None
    /\ ret = None

\* C4: an item whose phase_code matches none of the phases does not make
\* compute fail: its direct cost is accumulated, it is part of direct_total
\* and a 10% contingency is applied to it.
C4_UnknownPhaseAccumulates ==
    (/\ c_pc # "loop"
     /\ \A i \in DOMAIN items : ~NamesUnknownLabor(items[i])
     /\ \E i \in DOMAIN items : items[i].phase_code \notin Range(phases))
    => /\ c_pc = "returned"
       /\ Len(ret[1].rows) = Len(items)
       /\ ret[1].summary.direct_total = DirectOfAll(ret[1].rows)
       /\ ret[1].summary.phase_contingency_total =
              RMul(ret[1].summary.direct_total, Q(10, 100))

\* C5: an item with both subcontract_lump_sum and subcontract_unit_rate has
\* subcontract_cost equal to the lump sum; with only the unit rate it is
\* quantity x unit rate; with neither it is zero.
C5_LumpSumBeatsUnitRate ==
    c_pc = "returned" =>
        \A i \in DOMAIN ret[1].rows :
            LET it == items[i]
                sub == ret[1].rows[i].subcontract_cost
            IN  /\ it.subcontract_lump_sum # None => sub = it.subcontract_lump_sum[1]
                /\ (it.subcontract_lump_sum = None /\ it.subcontract_unit_rate # None)
                   => sub = RMul(it.quantity, it.subcontract_unit_rate[1])
                /\ (it.subcontract_lump_sum = None /\ it.subcontract_unit_rate = None)
                   => sub = Zero

\* compute has returned a row for an item with both fields set, whose lump
\* sum differs from quantity x unit rate
C5_Witness ==
    /\ c_pc = "returned"
    /\ \E i \in DOMAIN ret[1].rows :
          /\ items[i].subcontract_lump_sum # None
          /\ items[i].subcontract_unit_rate # None
          /\ items[i].subcontract_lump_sum[1] #
                 RMul(items[i].quantity, items[i].subcontract_unit_rate[1])
          /\ ret[1].rows[i].subcontract_cost = items[i].subcontract_lump_sum[1]

\* the contingency rate configured for phase p, 10% when none is configured
ConfiguredRate(p) ==
    LET hit == {i \in DOMAIN PhaseConfigs : PhaseConfigs[i].code = p}
    IN  IF hit = {} THEN Q(10, 100)
        ELSE PhaseConfigs[CHOOSE i \in hit : TRUE].contingency_pct

\* C6: the contingency returned for phase p is phase_direct[p] times the
\* rate configured for that phase, 10% only when none is configured, and
\* phase_contingency_total is the sum of these amounts.
C6_ConfiguredContingency ==
    c_pc = "returned" =>
        /\ \A p \in DOMAIN ret[1].phase_cont :
              ret[1].phase_cont[p] = RMul(ret[1].phase_direct[p], ConfiguredRate(p))
        /\ ret[1].summary.phase_contingency_total = RSumFun(ret[1].phase_cont)

\* ------------------------------------------------------------------------
\* Claims about CompositePricingProvider
\* ------------------------------------------------------------------------
\* provider i supports the request and is available
Validates(i) ==
    /\ providers[i].is_available
    /\ Request.trade \in providers[i].trades
    /\ Request.location \in providers[i].locations

\* provider i validated the request and answered it with a response
Answers(i) == Validates(i) /\ providers[i].answer.kind = "response"

\* C7: get_pricing returns the very response object whose confidence_score is
\* the maximum among the responses of the providers that validated the
\* request and answered; among several with the maximum, the one of the
\* provider earliest in the constructor's list.
C7_BestIsFirstMaximum ==
    g_last.op = "get_pricing" =>
        /\ (\E i \in DOMAIN providers : Answers(i)) => g_last.kind = "response"
        /\ g_last.kind = "response" =>
              \E i \in DOMAIN providers :
                  /\ Answers(i)
                  /\ g_last.resp[1].obj = i
                  /\ g_last.resp[1].source = providers[i].name
                  /\ g_last.resp[1].confidence_score = providers[i].answer.confidence_score
                  /\ g_last.resp[1].material_unit_cost = providers[i].answer.material_unit_cost
                  /\ \A j \in DOMAIN providers :
                        Answers(j) =>
                            /\ ~RLess(providers[i].answer.confidence_score,
                                      providers[j].answer.confidence_score)
                            /\ providers[j].answer.confidence_score =
                                   providers[i].answer.confidence_score => i <= j

\* get_pricing has returned the first provider's response where the second
\* provider answered with the same, maximal, confidence and another price
C7_Witness ==
    /\ g_last.op = "get_pricing"
    /\ g_last.kind = "response"
    /\ Len(providers) >= 2
    /\ Answers(1) /\ Answers(2)
    /\ providers[1].answer.confidence_score = providers[2].answer.confidence_score
    /\ providers[1].answer.material_unit_cost # providers[2].answer.material_unit_cost
    /\ g_last.resp[1].obj = 1

\* C8: get_pricing never propagates an exception a constituent raises in its
\* get_pricing: that provider counts as giving no answer, the providers after
\* it are still queried, and the composite returns None only if every
\* constituent threw, failed validation or returned nothing.
C8_ThrowingProviderSkipped ==
    g_last.op = "get_pricing" =>
        /\ g_last.kind # "raised"
        /\ g_last.queried = {i \in DOMAIN providers : Validates(i)}
        /\ g_last.kind = "None" <=>
              \A i \in DOMAIN providers :
                  \/ ~Validates(i)
                  \/ providers[i].answer.kind = "raise"
                  \/ providers[i].answer.kind = "None"

\* get_pricing has returned the second provider's response after the first,
\* which validated the request, raised
C8_Witness ==
    /\ g_last.op = "get_pricing"
    /\ Len(providers) >= 2
    /\ Validates(1)
    /\ providers[1].answer.kind = "raise"
    /\ Answers(2)
    /\ g_last.kind = "response"
    /\ g_last.resp[1].obj = 2
    /\ g_last.queried = {1, 2}

\* provider i contributes to the weighted price: it answers with a material
\* unit cost (one that Python takes as true: not None, not 0)
Contributes(i) ==
    /\ Answers(i)
    /\ providers[i].answer.material_unit_cost # None
    /\ providers[i].answer.material_unit_cost[1].v # Zero

RECURSIVE SumWeights(_)
SumWeights(S) ==
    IF S = {} THEN Zero
    ELSE LET i == CHOOSE x \in S : TRUE
         IN  RAdd(provider_weights[providers[i].name].v, SumWeights(S \ {i}))

RECURSIVE SumWeightedCosts(_)
SumWeightedCosts(S) ==
    IF S = {} THEN Zero
    ELSE LET i == CHOOSE x \in S : TRUE
         IN  RAdd(RMul(providers[i].answer.material_unit_cost[1].v,
                       provider_weights[providers[i].name].v),
                  SumWeightedCosts(S \ {i}))

RECURSIVE SumWeightedConfidences(_)
SumWeightedConfidences(S) ==
    IF S = {} THEN Zero
    ELSE LET i == CHOOSE x \in S : TRUE
         IN  RAdd(RMul(providers[i].answer.confidence_score,
                       provider_weights[providers[i].name].v),
                  SumWeightedConfidences(S \ {i}))

\* C9: over the contributing responses with weights w_i, get_weighted_pricing
\* returns a new response whose material_unit_cost is sum(cost_i x w_i) /
\* sum(w_i), whose confidence_score is sum(confidence_i x w_i) / sum(w_i), and
\* whose labor hours, labor rate, equipment cost, overhead rate and profit
\* rate are those of the contributor with the highest confidence_score.
C9_WeightedMean ==
    LET S == {i \in DOMAIN providers : Contributes(i)}
    IN  (g_last.op = "get_weighted_pricing" /\ S # {}) =>
            /\ g_last.kind = "response"
            /\ g_last.resp[1].material_unit_cost[1].v =
                   RDiv(SumWeightedCosts(S), SumWeights(S))
            /\ g_last.resp[1].confidence_score =
                   RDiv(SumWeightedConfidences(S), SumWeights(S))
            /\ \E b \in S :
                  /\ \A j \in S : ~RLess(providers[b].answer.confidence_score,
                                         providers[j].answer.confidence_score)
                  /\ g_last.resp[1].labor_hours_per_unit = providers[b].answer.labor_hours_per_unit
                  /\ g_last.resp[1].labor_rate_per_hour = providers[b].answer.labor_rate_per_hour
                  /\ g_last.resp[1].equipment_cost_per_unit =
                         providers[b].answer.equipment_cost_per_unit
                  /\ g_last.resp[1].overhead_rate = providers[b].answer.overhead_rate
                  /\ g_last.resp[1].profit_rate = providers[b].answer.profit_rate

\* ------------------------------------------------------------------------
\* Claims about PricingCache
\* ------------------------------------------------------------------------
\* C10: when set inserts a key into a cache that already holds max_size
\* entries, the entry removed is the one whose last access (a hit by get or a
\* write by set) is the oldest, and no other entry is removed.
C10_EvictsLeastRecentlyUsed ==
    (k_last.op = "set" /\ k_last.was_full /\ k_last.was_new) =>
        k_last.evicted = {k_last.lru[1]}

\* C11: calls of get and set made by several runs on one cache take effect
\* one at a time: no call fails at line 258 or 259 because another call has
\* already removed the entry it chose to evict, between calls cache and
\* access_times hold the same keys, and the cache never holds more than
\* max_size entries.
Quiescent == \A r \in DOMAIN runs : runs[r].pc = "idle"

C11_CallsTakeEffectAtomically ==
    /\ \A r \in DOMAIN runs :
          runs[r].exc = None \/ runs[r].exc[1].line \notin {258, 259}
    /\ Quiescent => KeysOf(access_times) = DOMAIN cache
    /\ Cardinality(DOMAIN cache) <= max_size

\* ------------------------------------------------------------------------
\* Claims about CostRollup
\* ------------------------------------------------------------------------
\* the sum of one cost field over the buckets of a rollup
SumOverBuckets(result, field) == RSumFun([k \in DOMAIN result |-> result[k][field]])

\* the sum of one cost field over the calculations
SumOverCalculations(field) ==
    RSumSeq([i \in DOMAIN calculations |-> calculations[i][field]])

\* the keys of the buckets whose line_items list holds the id
BucketsListing(result, id) ==
    {k \in DOMAIN result : id \in Range(result[k].line_items)}

\* C12: the totals of the buckets of rollup_by_phase, rollup_by_trade,
\* rollup_by_cost_type and rollup_by_phase_and_trade add up to the sum of
\* total_cost over the calculations, and so do material, labor and equipment
\* in the rollups whose buckets carry them.
C12_RollupConservation ==
    /\ r_last.op \in {"rollup_by_phase", "rollup_by_trade", "rollup_by_cost_type",
                      "rollup_by_phase_and_trade"} =>
          SumOverBuckets(r_last.result, "total") = SumOverCalculations("total_cost")
    /\ r_last.op \in {"rollup_by_phase", "rollup_by_trade", "rollup_by_phase_and_trade"} =>
          /\ SumOverBuckets(r_last.result, "material") = SumOverCalculations("material_cost")
          /\ SumOverBuckets(r_last.result, "labor") = SumOverCalculations("labor_cost")
          /\ SumOverBuckets(r_last.result, "equipment") = SumOverCalculations("equipment_cost")

C12_Witness ==
    /\ r_last.op = "rollup_by_phase_and_trade"
    /\ Len(calculations) = 2
    /\ Cardinality(DOMAIN r_last.result) = 2
    /\ SumOverBuckets(r_last.result, "total") = Q(80, 1)

\* C13: in rollup_by_phase, rollup_by_trade and rollup_by_cost_type every
\* calculation id is listed by exactly one bucket, and the id of a
\* calculation that matches no line item is listed by the general bucket.
C13_UnmatchedGoesToGeneral ==
    r_last.op \in {"rollup_by_phase", "rollup_by_trade", "rollup_by_cost_type"} =>
        \A i \in DOMAIN calculations :
            LET id == calculations[i].line_item_id
            IN  /\ Cardinality(BucketsListing(r_last.result, id)) = 1
                /\ FirstLineItem(line_items, id) = None =>
                      BucketsListing(r_last.result, id) = {"general"}

\* the rounding allowed on an amount: two units in its last kept digit
Tolerance(x) == RMul(x, Q(2, Pow10(DecimalPrec - 1)))

RoomNameSet == {rooms[i].name : i \in DOMAIN rooms}

\* the calculation and the line item of the last pass of rollup_by_room
PassCalc == calculations[r_pos - 1]
PassItem == FirstLineItem(line_items, PassCalc.line_item_id)[1]

\* C14: a pass of rollup_by_room over an item that declares rooms adds the
\* item's full material, labor, equipment and total cost once to each
\* declared room that is in the room list, and nothing to any other room.
C14_DeclaredRoomsGetFullCost ==
    r_added.branch = "declared" =>
        /\ \A name \in RoomNameSet \cup DOMAIN room_rollup \cup Range(PassItem.rooms) :
              LET declared == {i \in DOMAIN PassItem.rooms : PassItem.rooms[i] = name}
                  got == {i \in DOMAIN r_added.adds : r_added.adds[i].room = name}
              IN  /\ Cardinality(got) = IF name \in RoomNameSet THEN Cardinality(declared) ELSE 0
                  /\ \A i \in got :
                        /\ r_added.adds[i].costs.material = PassCalc.material_cost
                        /\ r_added.adds[i].costs.labor = PassCalc.labor_cost
                        /\ r_added.adds[i].costs.equipment = PassCalc.equipment_cost
                        /\ r_added.adds[i].costs.total = PassCalc.total_cost
        /\ r_pos = 2 =>
              /\ DOMAIN room_rollup = Range(PassItem.rooms) \cap RoomNameSet
              /\ \A name \in DOMAIN room_rollup :
                    /\ room_rollup[name].total = PassCalc.total_cost
                    /\ room_rollup[name].material = PassCalc.material_cost
                    /\ room_rollup[name].labor = PassCalc.labor_cost
                    /\ room_rollup[name].equipment = PassCalc.equipment_cost

C14_Witness ==
    /\ r_added.branch = "declared"
    /\ PassItem.rooms = <<"A", "B">>
    /\ RoomNameSet = {"A", "B"}
    /\ r_pos = 2
    /\ room_rollup["A"].total = Q(70, 1)
    /\ room_rollup["B"].total = Q(70, 1)

\* C15: a pass of rollup_by_room over an item that declares no rooms adds,
\* to every room of the list, total_cost x room.area / (sum of the areas),
\* up to rounding; the amounts added sum to total_cost up to rounding; and
\* in the result each bucket's cost_per_sf is its total divided by its area,
\* up to rounding.
C15_ProportionalShares ==
    /\ r_added.branch = "proportional" =>
          LET sum_areas == RSumSeq([i \in DOMAIN rooms |-> rooms[i].area])
              eps == Tolerance(PassCalc.total_cost)
          IN  /\ Len(r_added.adds) = Len(rooms)
              /\ \A i \in DOMAIN rooms :
                    /\ r_added.adds[i].room = rooms[i].name
                    /\ RLeq(RDist(r_added.adds[i].costs.total,
                                  RDiv(RMul(PassCalc.total_cost, rooms[i].area), sum_areas)),
                            eps)
              /\ RLeq(RDist(RSumSeq([i \in DOMAIN r_added.adds |-> r_added.adds[i].costs.total]),
                            PassCalc.total_cost),
                      eps)
    /\ r_last.op = "rollup_by_room" =>
          \A name \in DOMAIN r_last.result :
              LET b == r_last.result[name]
              IN  /\ RLess(Zero, b.area)
                  /\ RLeq(RDist(b.cost_per_sf, RDiv(b.total, b.area)),
                          Tolerance(RDiv(b.total, b.area)))

C15_Witness ==
    /\ r_last.op = "rollup_by_room"
    /\ r_added.branch = "proportional"
    /\ Len(calculations) = 1
    /\ DOMAIN r_last.result = {"A", "B"}
    /\ r_last.result["A"].area = Q(100, 1)
    /\ r_last.result["B"].area = Q(200, 1)
    /\ r_last.result["A"].total = Q(233, 10)
    /\ r_last.result["B"].total = Q(467, 10)
    /\ r_last.result["A"].cost_per_sf = Q(233, 1000)

\* C16: when the areas of the rooms sum to zero (the room list may be
\* empty), rollup_by_room returns, and every calculation whose line item
\* declares no rooms is listed somewhere in what it returns.
C16_UnallocatedIsReported ==
    r_last.op = "rollup_by_room" =>
        \A i \in DOMAIN calculations :
            LET line_item == FirstLineItem(line_items, calculations[i].line_item_id)
            IN  (/\ line_item # None
                 /\ line_item[1].rooms = <<>>
                 /\ ~RLess(Zero, TotalArea(rooms))) =>
                    \E k \in DOMAIN r_last.result :
                        calculations[i].line_item_id \in Range(r_last.result[k].line_items)

\* ------------------------------------------------------------------------
\* Claims about CostAnalyzer
\* ------------------------------------------------------------------------
\* C17: find_cost_outliers on a non-empty set of calculations whose
\* total_cost values are all equal raises nothing and returns the empty
\* list, for every threshold.
C17_EqualCostsHaveNoOutliers ==
    (/\ r_last.op = "find_cost_outliers"
     /\ calculations # <<>>
     /\ \A i, j \in DOMAIN calculations :
           calculations[i].total_cost = calculations[j].total_cost) =>
        /\ r_last.exc = None
        /\ r_last.result = <<>>

\* ------------------------------------------------------------------------
\* Claims about CostClassRanges
\* ------------------------------------------------------------------------
\* the ranges get_cost_class looked at, and those whose half-open interval
\* [min, max) holds the cost
RangesOf(range_set) == IF range_set = "custom" THEN custom_ranges ELSE default_ranges

Holding(ranges, cost) ==
    {i \in DOMAIN ranges :
        /\ ranges[i].min <= cost
        /\ ranges[i].max = Inf \/ cost < ranges[i].max[1]}

\* C18: get_cost_class returns the label of a range whose half-open interval
\* [min, max) holds the cost, and 'Unknown' when no range does; with the
\* default ranges 1000 is Medium, 10000 High and 100000 Very High.
C18_HalfOpenBands ==
    cc_last.op = "get_cost_class" =>
        LET ranges == RangesOf(cc_last.range_set)
            holding == Holding(ranges, cc_last.cost)
        IN  /\ holding = {} => cc_last.result = "Unknown"
            /\ holding # {} => cc_last.result \in {ranges[i].label : i \in holding}
            /\ (cc_last.range_set = "default" /\ cc_last.cost = 1000) =>
                  cc_last.result = "Medium Cost"
            /\ (cc_last.range_set = "default" /\ cc_last.cost = 10000) =>
                  cc_last.result = "High Cost"
            /\ (cc_last.range_set = "default" /\ cc_last.cost = 100000) =>
                  cc_last.result = "Very High Cost"

\* ------------------------------------------------------------------------
\* CSVPricingProvider: matching a request that has no exact key
\* ------------------------------------------------------------------------
\* the request passed validate_request and its own key is not in the catalog
NoExactKey ==
    /\ csv_last.op = "get_pricing"
    /\ validate_request(AsProvider(pricing_data), csv_last.request)
    /\ \A i \in DOMAIN pricing_data :
          pricing_data[i].key # _create_lookup_key(csv_last.request.item_description,
                                                   csv_last.request.trade,
                                                   csv_last.request.unit)

NormalizedText(str) == CollapseSpaces(Strip(Lower(str)))

SimilarityTo(i) ==
    _calculate_similarity(NormalizedText(csv_last.request.item_description),
                          NormalizedText(pricing_data[i].item_description))

\* the entries of the request's trade and normalized unit that are more than
\* 0.7 similar to it
Qualifying ==
    {i \in DOMAIN pricing_data :
        /\ pricing_data[i].trade = csv_last.request.trade
        /\ Strip(Lower(pricing_data[i].unit)) = Strip(Lower(csv_last.request.unit))
        /\ RLess(Q(7, 10), SimilarityTo(i))}

\* C19: a request without an exact key match is priced only from an entry of
\* its trade and normalized unit whose Jaccard similarity to it is strictly
\* above 0.7, and from the most similar of these; when no entry qualifies
\* get_pricing returns None.
C19_FuzzyMatchAboveThreshold ==
    NoExactKey =>
        /\ csv_last.kind = "response" =>
              \E i \in Qualifying :
                  /\ pricing_data[i].key = csv_last.key[1]
                  /\ \A j \in Qualifying : RLeq(SimilarityTo(j), SimilarityTo(i))
        /\ Qualifying = {} => csv_last.kind = "None"

\* ------------------------------------------------------------------------
\* ProductivityCalculator: labor hours
\* ------------------------------------------------------------------------
\* the hours multiplied by the configured factor of every adjustment, from
\* number i on, whose (factor type, condition) pair is configured
RECURSIVE TimesKnownFactors(_, _, _)
TimesKnownFactors(hours, adjustments, i) ==
    IF i > Len(adjustments) THEN hours
    ELSE IF adjustments[i] \in DOMAIN adjustment_factors
    THEN TimesKnownFactors(DecMul(hours, adjustment_factors[adjustments[i]]),
                           adjustments, i + 1)
    ELSE TimesKnownFactors(hours, adjustments, i + 1)

\* the same adjustments in every order
Orderings(adjustments) ==
    {a \in [DOMAIN adjustments -> Range(adjustments)] : Range(a) = Range(adjustments)}

GivenAdjustments == IF prod_last.adjustments = None THEN <<>> ELSE prod_last.adjustments[1]

\* C20: calculate_labor_hours returns zero when there is no rate for (trade,
\* item type); otherwise rate x quantity times the configured factor of every
\* adjustment whose (factor type, condition) pair is known, unknown
\* adjustments changing nothing, whatever the order of the adjustments.
C20_LaborHours ==
    prod_last.op = "calculate_labor_hours" =>
        IF <<prod_last.trade, prod_last.item_type>> \notin DOMAIN labor_rates
        THEN prod_last.result = Zero
        ELSE \A order \in Orderings(GivenAdjustments) :
                prod_last.result =
                    TimesKnownFactors(
                        DecMul(labor_rates[<<prod_last.trade, prod_last.item_type>>],
                               prod_last.quantity),
                        order, 1)

\* ------------------------------------------------------------------------
\* compute: labour and waste
\* ------------------------------------------------------------------------
\* the item names a labor class of the roster and its code has no
\* productivity entry
MissesProductivity(it) ==
    /\ TruthyStr(it.labor_class)
    /\ labor_by_name(it.labor_class[1]) # None
    /\ prod_by_code(it.code) = None

\* C21: an item that names a labor class of the roster and whose code has no
\* productivity entry gets labor_hours 0 and labor_cost 0; the missing entry
\* raises nothing, the loop goes on and compute returns every row and the
\* summary.
C21_MissingProductivityIsZeroHours ==
    /\ \A i \in DOMAIN rows :
          MissesProductivity(items[i]) =>
              rows[i].labor_hours = Zero /\ rows[i].labor_cost = Zero
    /\ c_pc = "raised" =>
          ~(MissesProductivity(items[idx]) /\ items[idx].phase_code \in Range(phases))
    /\ c_pc = "returned" =>
          /\ Len(ret[1].rows) = Len(items)
          /\ \A i \in DOMAIN items :
                MissesProductivity(items[i]) =>
                    /\ ret[1].rows[i].labor_hours = Zero
                    /\ ret[1].rows[i].labor_cost = Zero
          /\ ret[1].summary.direct_total = DirectOfAll(ret[1].rows)

\* compute has returned two rows: the first item has no productivity entry,
\* the second, processed after it, has labour
C21_Witness ==
    /\ c_pc = "returned"
    /\ Len(items) = 2
    /\ MissesProductivity(items[1])
    /\ ret[1].rows[1].labor_hours = Zero
    /\ ret[1].rows[2].labor_cost # Zero

\* C25: the row of an item naming a labor class with a productivity entry
\* has labor_hours = quantity x hours_per_unit x (product of the entry's
\* factors) x regional_factor, on the quantity without waste, and labor_cost =
\* labor_hours x base_rate x (1 + burden_pct) of the class; the row of an item
\* naming no labor class has both zero.
C25_LaborHoursAndCost ==
    \A i \in DOMAIN rows :
        LET it == items[i]
            p == prod_by_code(it.code)
            lc == labor_by_name(it.labor_class[1])
        IN  IF ~TruthyStr(it.labor_class)
            THEN rows[i].labor_hours = Zero /\ rows[i].labor_cost = Zero
            ELSE p # None =>
                    /\ rows[i].labor_hours =
                          RMul(it.quantity,
                               RMul(p[1].hours_per_unit,
                                    RMul(RProdFun(p[1].factors), project.regional_factor)))
                    /\ rows[i].labor_cost =
                          RMul(rows[i].labor_hours,
                               RMul(lc[1].base_rate, RAdd(One, lc[1].burden_pct)))

\* compute has returned the row of a Carpenter item of quantity 2 with waste,
\* 0.5 h per unit, factors 1.25 and 1.2, regional factor 1.25: 1.875 hours at
\* 40 x 1.5 an hour, 112.5
C25_Witness ==
    /\ c_pc = "returned"
    /\ project.regional_factor = Q(5, 4)
    /\ \E i \in DOMAIN ret[1].rows :
          /\ items[i].labor_class = Some("Carpenter")
          /\ items[i].quantity = Q(2, 1)
          /\ items[i].waste_pct = Q(10, 100)
          /\ ret[1].rows[i].labor_hours = Q(15, 8)
          /\ ret[1].rows[i].labor_cost = Q(225, 2)
    /\ \E i \in DOMAIN ret[1].rows : items[i].labor_class = None

RSub(x, y) == RAdd(x, Q(-y.n, y.d))

WastePcts == {Zero, Q(10, 100), Q(25, 100)}

\* the labour of a row, as LaborCost gives it
LaborOfRow(r) == [raised |-> FALSE, hours |-> r.labor_hours, labor |-> r.labor_cost]

C22_OnlyValidatingProvidersAnswer ==
    /\ \A i \in DOMAIN providers : validate_request(providers[i], Request) => Validates(i)
    /\ g_last.op \in {"get_pricing", "get_weighted_pricing"} =>
          /\ \A i \in g_last.queried : Validates(i)
          /\ (g_last.op = "get_pricing" /\ g_last.kind = "response") =>
                /\ g_last.resp[1].obj \in DOMAIN providers
                /\ Validates(g_last.resp[1].obj)
          /\ (g_last.op = "get_weighted_pricing" /\ g_last.kind = "response") =>
                LET S == {i \in DOMAIN providers : Contributes(i)}
                IN  /\ S # {}
                    /\ g_last.resp[1].material_unit_cost[1].v =
                          RDiv(SumWeightedCosts(S), SumWeights(S))

\* get_weighted_pricing has returned the price of the one provider that
\* supports the request, the other, which does not, answering every request
\* with a higher price and confidence
C22_Witness ==
    /\ g_last.op = "get_weighted_pricing"
    /\ g_last.kind = "response"
    /\ Len(providers) = 2
    /\ \E i, j \in DOMAIN providers :
          /\ ~Validates(i)
          /\ providers[i].answer.kind = "response"
          /\ Contributes(j)
          /\ g_last.queried = {j}
          /\ g_last.resp[1].material_unit_cost[1].v = providers[j].answer.material_unit_cost[1].v

\* provider i validated the request and answered with a material unit cost
AnswersWithCost(i) == Answers(i) /\ providers[i].answer.material_unit_cost # None

\* C27: get_weighted_pricing returns a synthesized response whenever at least
\* one validated provider answers with a material unit cost, whatever weights
\* set_provider_weight has set (0 for every contributor included); it returns
\* None only when no provider contributes, and the division never fails.
C27_WeightedPricingAlwaysAnswers ==
    g_last.op = "get_weighted_pricing" =>
        /\ (\E i \in DOMAIN providers : AnswersWithCost(i)) => g_last.kind = "response"
        /\ g_last.kind = "None" => ~\E i \in DOMAIN providers : AnswersWithCost(i)
        /\ g_last.exc \notin {"DivisionByZero", "InvalidOperation"}

ValuesFollowCalls ==
    /\ k_last'.op = "set" =>
          /\ k_last'.key \in DOMAIN cache'
          /\ \A k \in DOMAIN cache' \ {k_last'.key} : k \in DOMAIN cache /\ cache'[k] = cache[k]
    /\ k_last'.op = "get" =>
          /\ cache' = cache
          /\ k_last'.ret = IF k_last'.key \in DOMAIN cache
                           THEN Some(cache[k_last'.key]) ELSE None
          /\ k_last'.key \notin DOMAIN cache => access_times' = access_times
    /\ k_last'.op = "clear" => DOMAIN cache' = {}

\* C29: with max_size >= 1 and one caller, after any calls of get, set and
\* clear the cache holds at most max_size entries, cache and access_times
\* hold the same keys, and get(k) returns the value of the latest set(k, v)
\* unless k was evicted or the cache cleared since; get on an absent key
\* returns None and changes nothing.
C29_SingleCallerInvariants ==
    /\ [](/\ Cardinality(DOMAIN cache) <= max_size
          /\ KeysOf(access_times) = DOMAIN cache
          /\ Len(access_times) = Cardinality(DOMAIN cache))
    /\ [][ValuesFollowCalls]_vars

\* get has returned the value "r2" from a cache of max_size 2 that is full
\* and has had an eviction: the key read is not the oldest of the two
C29_Witness ==
    /\ max_size = 2
    /\ Cardinality(DOMAIN cache) = 2
    /\ "C" \in DOMAIN cache
    /\ k_last.op = "get"
    /\ k_last.ret = Some("r2")
    /\ recency # <<>>
    /\ Head(recency) # k_last.key

\* C30: set(k, v) for a key k that is cached replaces k's value and
\* refreshes its recency without evicting another key, also when the cache
\* holds max_size entries.
C30_SetOfCachedKeyEvictsNothing ==
    (k_last.op = "set" /\ ~k_last.was_new) => k_last.evicted = {}

\* ------------------------------------------------------------------------
\* Claims about the OAuth login and the sessions
\* ------------------------------------------------------------------------
\* the step is a request of the kind op; a_last' tells which
RequestStep(op) ==
    /\ a_last'.op = op
    /\ utc_now' = utc_now
    /\ ALLOWED_USERS' = ALLOWED_USERS

\* the state the session of the request held before the request, None if none
StoredState == sessions[a_last'.session].oauth_state

\* C23: the callback passes only if the received state equals the state the
\* preceding /auth/login stored in the same session and that state is at
\* most 10 minutes old; every call of verify_oauth_state clears the stored
\* state and its timestamp; a callback with a state already used, with no
\* state, with a state other than the stored one or with the state of
\* another session is answered 400; no other session is touched.
C23_StateTokenSingleUse ==
    [][RequestStep("callback") =>
        /\ a_last'.status # 400 =>
              /\ a_last'.received # None
              /\ StoredState = a_last'.received
              /\ sessions[a_last'.session].oauth_state_timestamp # None
              /\ utc_now - sessions[a_last'.session].oauth_state_timestamp[1] <= StateMaxAge
        /\ a_last'.received # None =>
              /\ sessions'[a_last'.session].oauth_state = None
              /\ sessions'[a_last'.session].oauth_state_timestamp = None
        /\ (a_last'.received # None /\ a_last'.received[1] \in spent) => a_last'.status = 400
        /\ (a_last'.received = None \/ a_last'.received # StoredState) => a_last'.status = 400
        /\ \A o \in SessionIds \ {a_last'.session} :
              /\ sessions'[o] = sessions[o]
              /\ (a_last'.received # None /\ sessions[o].oauth_state = a_last'.received)
                    => a_last'.status = 400
    ]_vars

\* the session that logged in with a state presents that state once more and
\* is answered 400
C23_Witness ==
    /\ a_last.op = "callback"
    /\ a_last.status = 400
    /\ a_last.received # None
    /\ a_last.received[1] \in spent
    /\ sessions[a_last.session].authenticated
    /\ sessions[a_last.session].oauth_state = None

\* the bearer token was signed by this service, has not expired and names a
\* user who is allowed
ValidBearer(bearer, t, allowed) ==
    /\ bearer # None
    /\ bearer[1].signed
    /\ bearer[1].exp >= t
    /\ is_user_authorized(bearer[1].email, allowed)

\* the session is authenticated, younger than max_age and of an allowed user
SessionYoungerThan(session, t, allowed, max_age) ==
    /\ session.authenticated
    /\ session.user # None
    /\ t - session.user[1].login_time < max_age
    /\ is_user_authorized(session.user[1].email, allowed)

====
